---------------------------- MODULE Spec2Model ----------------------------
(***************************************************************************)
(* A model of the oysterpack request/reply toolkit.                        *)
(*                                                                         *)
(*  Part I  - the nng server lifecycle of                                  *)
(*            oysterpack-trust-nng/src/reqrep/server.rs: spawn, the        *)
(*            supervisor (controller) task, the ServerHandle operations    *)
(*            and the global SERVER_HANDLES registry.  ServerSpec.         *)
(*  Part II - the channel based ReqRep harness of                          *)
(*            oysterpack-trust/src/concurrent/messaging/reqrep.rs: send,    *)
(*            the backend service task, reply one-shots and the service     *)
(*            instance gauge.  ReqRepSpec follows one channel,              *)
(*            ServicesSpec several services that may share a ReqRepId.      *)
(*  Part VII - the envelopes, codecs, signed hashes and deadlines of       *)
(*            oysterpack-core/src/message/mod.rs.  EnvelopeSpec,           *)
(*            CodecSpec, SignedHashSpec, DeadlineSpec.                     *)
(*  Part VIII - the AIO worker tasks of the nng server, create_workers     *)
(*            and start_workers of server.rs.  WorkerSpec and, with the    *)
(*            scheduling stated, WorkerFairSpec.                           *)
(***************************************************************************)
EXTENDS Naturals, Integers, Sequences, FiniteSets, Bags

(***************************************************************************)
(* Bounds of the model.                                                    *)
(***************************************************************************)
\* number of ServerHandle values that callers hold at the same time
MaxHandles == 2
\* number of threads that are inside a blocking handle operation, and of
\* Stop commands that are in flight, at the same time
MaxCallers == 2

\* number of ReqRep channels that are created
MaxInstances == 2
\* number of send calls
MaxRequests == 3
\* number of ReqRep handles of one channel that are alive at the same time
MaxClones == 2

\* the ReqRepIds a spawned server's backend service may carry
ServerReqRepIds == {"R1", "R2"}

VARIABLES
    \* ---- Part I : server lifecycle ----
    pc,         \* position of the supervisor task
    cmdq,       \* the messages in server_command_rx's channel
    rxAlive,    \* server_command_rx has not been dropped
    stopTasks,  \* spawned stop tasks that have not yet sent Stop
    registry,   \* SERVER_HANDLES: the set of registered server ids
    srvReqRep,  \* reqrep_id of the server ("none": not spawned)
    handles,    \* the bag of ServerHandle values held by callers
    ops,        \* the bag of blocking handle operations threads are inside
    awaited,    \* an await_shutdown on the server has returned
    lastRet,    \* the value the handle operation of the last step returned
    \* ---- Part II : ReqRep ----
    kind,       \* how the channel was made: start_service or ReqRep::new
    bpc,        \* position of the backend task that owns the request receiver
    reqrep_id,  \* reqrep_id of the channel's ReqRep handles
    senders,    \* number of live ReqRep handles (request_sender clones)
    queue,      \* the ReqRepMessages in the request channel
    gauge,      \* REQ_REP_SERVICE_INSTANCE_COUNT, per ReqRepId label
    oneshot,    \* the reply one-shot of each send call
    sends,      \* number of send calls made
    enqLog,     \* per channel: the MessageIds in the order they were enqueued
    procLog,    \* per channel: the MessageIds in the order they were processed
    warned,     \* per channel: number of failed replies the backend logged
    destroyed,  \* per channel: number of Processor::destroy invocations
    sendRet,    \* what the send call of the last step returned
    \* ---- Part III : nng client registry ----
    CLIENTS,      \* the client registry: per ReqRepId the registered backend
    clients_lock, \* the thread that holds CLIENTS' write lock (0: nobody)
    tpc,          \* per thread: its position inside register_client
    targ,         \* per thread: the ReqRepId its register_client was given
    tres,         \* per thread: the backend its register_client returns
    built,        \* number of client backends created so far
    backend_id,   \* per backend: the ReqRepId it was started with
    crunning,     \* per backend: state of its ReqRep service task
    chandles,     \* per backend: number of Client handles callers hold
    unregistered, \* per ReqRepId: number of unregister_client calls that
                  \* returned Some
    clientRet,    \* what the registry function of the last step returned
    \* ---- Part IV : the NngClient of backend 1 ----
    client_context, \* its NngClientContext: "none", "registered" (in
                    \* CLIENT_CONTEXTS, socket and dialer open), "destroyed"
    client_req,   \* per send on a Client handle: the request (0: not sent)
    client_queue, \* the sends in the request channel of the Client handles
    client_reply, \* per send: what its ReplyReceiver received
    kpc,          \* position of the backend service task, inside process
    kcur,         \* the send the backend service task is processing
    kctx,         \* the AIO context sender that process borrowed
    borrow_chan,  \* number of borrow requests in the borrow channel
    borrow_closed,\* the borrow channel is closed
    borrowed,     \* the one-shot of a borrow request: the lent sender
    ppc,          \* position of the pool broker task
    aio_context_pool, \* the request senders in the pool channel
    pool_closed,  \* the pool channel is closed
    xpc,          \* per AIO context: position of its task
    req_chan,     \* per AIO context: the Request in its request channel
    req_closed,   \* per AIO context: its request channel is closed
    xcur,         \* per AIO context: the send whose Request it handles
    outcomes,     \* per send: what was sent on its Request's reply_chan
    aio_log,      \* per send: the last answer nng gave while it was handled
    handled_by,   \* per send: the AIO context that handled it
    \* ---- Part V : the rpc server of oysterpack-message ----
    rpc_running,  \* "none", "running" (the server thread has started the
                  \* workers), "stopped"
    rpc_state,    \* per AIO context: its AioState
    rpc_op,       \* per AIO context: the aio operation that is outstanding
    rpc_cur,      \* per AIO context: the request its callback is handling
    rpc_req,      \* per request: "unsent", "pending", "received",
                  \* "replied" or "lost"
    \* ---- Part VI : connection metrics of the nng server ----
    metrics_label,       \* per server: the ReqRepId its ServerMetrics carry
    pipes,               \* per server and pipe: the last event of the pipe
    other_events,        \* number of pipe events of other kinds
    active_conn_count,   \* ACTIVE_CONN_COUNT, per ReqRepId label
    tot_conn_count,      \* TOT_CONN_COUNT, per ReqRepId label
    tot_conn_initiate_count, \* TOT_CONN_INITIATE_COUNT, per ReqRepId label
    \* ---- Part VII : messages of oysterpack-core ----
    open_envelope,    \* the OpenEnvelope that was constructed, or NoEnvelope
    sealing_key,      \* the precomputed key it was sealed with, or NoKey
    sealed_envelope,  \* the SealedEnvelope at hand, or NoEnvelope
    altered,          \* what was changed in it after the seal
    opened,           \* what SealedEnvelope::open returned, with its key
    encoded_message,  \* the EncodedMessage that was constructed, with the
                      \* addresses it was constructed from
    codec,            \* the last Encoding::encode and decode: the encoding,
                      \* the value, the bytes and the decoded result
    signed,           \* the last SignedHash: the message that was hashed,
                      \* the signer and the SignedHash
    verified,         \* the last SignedHash::verify: its arguments and result
    deadline_call,    \* the last Deadline::duration: the deadline, the
                      \* starting time, the clock and the duration returned
    \* ---- Part VIII : the AIO workers of the nng server ----
    wsup,             \* the supervisor task, the listener and the registry entry
    wsocket,          \* the server socket: "init", "open" or "closed"
    wpc,              \* per worker: where its task stands
    wstate,           \* per worker: its AioState
    waio,             \* per worker: the operation outstanding on its Aio
    aio_rx,           \* per worker: callback events not yet taken
    aio_result,       \* per worker: aio.result() of the last completion
    wreq,             \* per request: where it stands and the worker that took it
    wlog,             \* per worker: the event it handled last and what it called
    wcur              \* per worker: the request its task holds, or NoRequest

serverVars == <<pc, cmdq, rxAlive, stopTasks, registry, srvReqRep, handles,
                ops, awaited, lastRet>>

reqrepVars == <<kind, bpc, reqrep_id, senders, queue, gauge, oneshot, sends, enqLog,
                procLog, warned, destroyed, sendRet>>

registryVars == <<CLIENTS, clients_lock, tpc, targ, tres, built, backend_id,
                  crunning, chandles, unregistered, clientRet>>

callerVars == <<client_req, client_queue, client_reply>>
backendVars == <<client_context, kpc, kcur, kctx>>
brokerVars == <<borrow_chan, borrow_closed, borrowed, ppc, aio_context_pool,
                pool_closed>>
aioVars == <<xpc, req_chan, req_closed, xcur, outcomes, aio_log, handled_by>>
nngClientVars == <<callerVars, backendVars, brokerVars, aioVars>>

rpcVars == <<rpc_running, rpc_state, rpc_op, rpc_cur, rpc_req>>

metricsVars == <<metrics_label, pipes, other_events, active_conn_count,
                 tot_conn_count, tot_conn_initiate_count>>

messageVars == <<open_envelope, sealing_key, sealed_envelope, altered, opened,
                 encoded_message, codec, signed, verified, deadline_call>>

workerVars == <<wsup, wsocket, wpc, wstate, waio, aio_rx, aio_result, wreq, wlog,
                wcur>>

vars == <<serverVars, reqrepVars, registryVars, nngClientVars, rpcVars,
          metricsVars, messageVars, workerVars>>

\* what the actions of one part leave unchanged
nonServerVars == <<reqrepVars, registryVars, nngClientVars, rpcVars, metricsVars,
    messageVars, workerVars>>
nonReqRepVars == <<serverVars, registryVars, nngClientVars, rpcVars, metricsVars,
    messageVars, workerVars>>
nonRegistryVars == <<serverVars, reqrepVars, nngClientVars, rpcVars, metricsVars,
    messageVars, workerVars>>
nonClientVars == <<serverVars, reqrepVars, rpcVars, metricsVars,
    messageVars, workerVars>>
nonRpcVars == <<serverVars, reqrepVars, registryVars, nngClientVars, metricsVars,
    messageVars, workerVars>>
nonMetricsVars == <<serverVars, reqrepVars, registryVars, nngClientVars, rpcVars,
    messageVars, workerVars>>
nonMessageVars == <<serverVars, reqrepVars, registryVars, nngClientVars, rpcVars,
    metricsVars, workerVars>>
nonWorkerVars == <<serverVars, reqrepVars, registryVars, nngClientVars, rpcVars,
    metricsVars, messageVars>>

(***************************************************************************)
(* Part I.  Server lifecycle.                                              *)
(*                                                                         *)
(* The model follows one server, from spawn to the end of its supervisor   *)
(* task.  Servers share nothing but SERVER_HANDLES, a map keyed by the     *)
(* server's ULID, and every operation reads and writes the entry of its    *)
(* own id only.                                                            *)
(***************************************************************************)

\* server_handle_id, the ULID that spawn generates
ServerId == "01SERVER"

NoRet == [op |-> "none", val |-> FALSE, chan |-> FALSE,
          reply |-> "none", running |-> FALSE, after |-> FALSE]

\* ServerCommand; a Ping carries its reply one-shot, which belongs to the
\* operation (ping or get) waiting on it; after: the operation began after an
\* await_shutdown on the server had returned
Stop == [cmd |-> "Stop", op |-> "none", after |-> FALSE]
Ping(op, after) == [cmd |-> "Ping", op |-> op, after |-> after]

Held == BagToSet(handles)
One(x) == SetToBag({x})

QueuedPings == {i \in 1..Len(cmdq) : cmdq[i].cmd = "Ping"}
QueuedStops == {i \in 1..Len(cmdq) : cmdq[i].cmd = "Stop"}

\* threads inside a blocking operation: waiting in the command channel, or not
BlockedCallers == BagCardinality(ops) + Cardinality(QueuedPings)

\* the Stop commands that are in flight: stop tasks that have not yet sent,
\* and Stop commands queued in the channel
StopsInFlight == stopTasks + Cardinality(QueuedStops)

\* the supervisor task is inside `while let Some(cmd) = server_command_rx.next()`
InCommandLoop == pc \in {"starting", "running"}

\* A ServerHandle value.  chan: server_command_channel is Some.  The rest is
\* history, which Clone copies as it copies the fields: first and later are
\* the values stop_async has returned on this handle (the first call, the
\* calls after it), sent the number of stop tasks those calls have spawned
\* (2 stands for "more than one").
\* The ServerHandle that spawn builds and the registry stores:
SpawnedHandle ==
    [chan |-> TRUE, first |-> "none", later |-> {}, sent |-> 0]

\* a faulty stop_signalled: `server_command_channel.is_some()`
stop_signalled_inverted(hd) == hd.chan

\* ServerHandle::stop_signalled
stop_signalled(hd) == ~hd.chan

\* a faulty stop_async: the channel is cloned instead of taken, so every call
\* sends a Stop
stop_async_resend(hd) ==
    [handle |-> hd, spawned |-> IF hd.chan THEN 1 ELSE 0, ret |-> hd.chan]

\* ServerHandle::stop_async on the handle value hd: the handle afterwards,
\* the number of stop tasks it spawned and the value it returned
stop_async(hd) ==
    IF hd.chan
    THEN [handle |-> [hd EXCEPT !.chan = FALSE], spawned |-> 1, ret |-> TRUE]
    ELSE [handle |-> hd, spawned |-> 0, ret |-> FALSE]

\* a faulty ping: the reply one-shot is not awaited
ping_unawaited(sent, reply) == sent

\* ServerHandle::ping, the value of the async block: the Ping was enqueued
\* and the one-shot resolved with Ok
ping_result(sent, reply) == sent /\ reply = "sent"

\* ServerHandle::ids, ServerHandle::all, ServerHandle::get_by_reqrep_id
ids == {<<id, srvReqRep>> : id \in registry}
all == registry
get_by_reqrep_id(rid) == {id \in registry : srvReqRep = rid}

\* a faulty spawn or supervisor: SERVER_HANDLES is left as it is
Untouched == registry

\* SERVER_HANDLES after `server_handles.insert(server_handle.id(), ..)`
Inserted == registry \cup {ServerId}

\* SERVER_HANDLES after `server_handles.remove(&id)`
Removed == registry \ {ServerId}

\* the handle after a stop_async call that returned ret and spawned n tasks
Logged(hd, ret, n) ==
    [hd EXCEPT !.first = IF @ = "none" THEN (IF ret THEN "Ok(true)" ELSE "Ok(false)")
                         ELSE @,
               !.later = IF hd.first = "none" THEN @
                         ELSE @ \cup {IF ret THEN "Ok(true)" ELSE "Ok(false)"},
               !.sent = IF @ + n > 1 THEN 2 ELSE @ + n]

Ret(op, val, chan, reply, after) ==
    [op |-> op, val |-> val, chan |-> chan, reply |-> reply,
     running |-> InCommandLoop, after |-> after]

Op(op, ph, reply, after) ==
    [op |-> op, ph |-> ph, reply |-> reply, after |-> after]

ServerInit ==
    /\ pc = "none"
    /\ cmdq = <<>>
    /\ rxAlive = FALSE
    /\ stopTasks = 0
    /\ registry = {}
    /\ srvReqRep = "none"
    /\ handles = EmptyBag
    /\ ops = EmptyBag
    /\ awaited = FALSE
    /\ lastRet = NoRet

\* spawn, up to start_workers: the command channel is created and the
\* supervisor task is spawned on the executor
SpawnStart(rid) ==
    /\ pc = "none"
    /\ pc' = "starting"
    /\ rxAlive' = TRUE
    /\ srvReqRep' = rid
    /\ lastRet' = NoRet
    /\ UNCHANGED nonServerVars
    /\ UNCHANGED <<cmdq, stopTasks, registry, handles, ops, awaited>>

\* spawn, the end: the ServerHandle is inserted into SERVER_HANDLES and
\* returned to the caller
SpawnRegister ==
    /\ pc = "starting"
    /\ pc' = "running"
    /\ registry' = Inserted
    /\ handles' = handles (+) One(SpawnedHandle)
    /\ lastRet' = NoRet
    /\ UNCHANGED nonServerVars
    /\ UNCHANGED <<cmdq, rxAlive, stopTasks, srvReqRep, ops, awaited>>

\* #[derive(Clone)] on ServerHandle
CloneHandle(hd) ==
    /\ hd \in Held
    /\ BagCardinality(handles) < MaxHandles
    /\ handles' = handles (+) One(hd)
    /\ lastRet' = NoRet
    /\ UNCHANGED nonServerVars
    /\ UNCHANGED <<pc, cmdq, rxAlive, stopTasks, registry, srvReqRep, ops, awaited>>

\* ServerHandle::all / ServerHandle::get_by_reqrep_id: the caller keeps one
\* of the clones the call returns
TakeFromRegistry(rid) ==
    /\ ServerId \in all
    /\ ServerId \in get_by_reqrep_id(rid)
    /\ BagCardinality(handles) < MaxHandles
    /\ handles' = handles (+) One(SpawnedHandle)
    /\ lastRet' = NoRet
    /\ UNCHANGED nonServerVars
    /\ UNCHANGED <<pc, cmdq, rxAlive, stopTasks, registry, srvReqRep, ops, awaited>>

\* a caller drops a handle it holds
DropHandle(hd) ==
    /\ hd \in Held
    /\ handles' = handles (-) One(hd)
    /\ lastRet' = NoRet
    /\ UNCHANGED nonServerVars
    /\ UNCHANGED <<pc, cmdq, rxAlive, stopTasks, registry, srvReqRep, ops, awaited>>

\* ServerHandle::stop_async
StopAsync(hd) ==
    /\ hd \in Held
    /\ hd.chan => StopsInFlight < MaxCallers
    /\ LET r == stop_async(hd)
       IN /\ handles' = (handles (-) One(hd)) (+) One(Logged(r.handle, r.ret, r.spawned))
          /\ stopTasks' = stopTasks + r.spawned
          /\ lastRet' = Ret("stop_async", r.ret, hd.chan, "none", awaited)
    /\ UNCHANGED nonServerVars
    /\ UNCHANGED <<pc, cmdq, rxAlive, registry, srvReqRep, ops, awaited>>

\* the task stop_async spawned: `let _ = await!(c.send(ServerCommand::Stop))`
StopTaskRun ==
    /\ stopTasks > 0
    /\ stopTasks' = stopTasks - 1
    /\ cmdq' = IF rxAlive THEN Append(cmdq, Stop) ELSE cmdq
    /\ lastRet' = NoRet
    /\ UNCHANGED nonServerVars
    /\ UNCHANGED <<pc, rxAlive, registry, srvReqRep, handles, ops, awaited>>

\* ServerHandle::ping on a handle whose server_command_channel is None
PingNoChannel(hd) ==
    /\ hd \in Held
    /\ ~hd.chan
    /\ lastRet' = Ret("ping", FALSE, FALSE, "none", awaited)
    /\ UNCHANGED nonServerVars
    /\ UNCHANGED <<pc, cmdq, rxAlive, stopTasks, registry, srvReqRep, handles,
                   ops, awaited>>

\* ServerHandle::ping: the Ping is enqueued and the caller awaits the one-shot
PingSend(hd) ==
    /\ hd \in Held
    /\ hd.chan
    /\ BlockedCallers < MaxCallers
    /\ rxAlive
    /\ cmdq' = Append(cmdq, Ping("ping", awaited))
    /\ lastRet' = NoRet
    /\ UNCHANGED nonServerVars
    /\ UNCHANGED <<pc, rxAlive, stopTasks, registry, srvReqRep, handles, ops, awaited>>

\* ServerHandle::ping: the send fails because the receiver is gone
PingSendFailed(hd) ==
    /\ hd \in Held
    /\ hd.chan
    /\ ~rxAlive
    /\ lastRet' = Ret("ping", ping_result(FALSE, "none"), TRUE, "none", awaited)
    /\ UNCHANGED nonServerVars
    /\ UNCHANGED <<pc, cmdq, rxAlive, stopTasks, registry, srvReqRep, handles,
                   ops, awaited>>

\* ServerHandle::ping: the one-shot resolved (a reply, or Canceled)
PingReturn(o) ==
    /\ o \in BagToSet(ops)
    /\ o.op = "ping"
    /\ o.ph = "resolved"
    /\ lastRet' = Ret("ping", ping_result(TRUE, o.reply), TRUE, o.reply, o.after)
    /\ ops' = ops (-) One(o)
    /\ UNCHANGED nonServerVars
    /\ UNCHANGED <<pc, cmdq, rxAlive, stopTasks, registry, srvReqRep, handles, awaited>>

\* ServerHandle::get(id): the registry lookup
GetLookup ==
    /\ pc \notin {"none", "starting"}
    /\ BlockedCallers < MaxCallers
    /\ IF ServerId \in registry
       THEN /\ ops' = ops (+) One(Op("get", "send", "none", awaited))
            /\ lastRet' = NoRet
       ELSE /\ lastRet' = Ret("get", FALSE, FALSE, "none", awaited)
            /\ UNCHANGED ops
    /\ UNCHANGED nonServerVars
    /\ UNCHANGED <<pc, cmdq, rxAlive, stopTasks, registry, srvReqRep, handles, awaited>>

\* ServerHandle::get(id): server_handle.ping() sends the Ping; when the send
\* fails the entry is removed and None is returned
GetSend(o) ==
    /\ o \in BagToSet(ops)
    /\ o.op = "get"
    /\ o.ph = "send"
    /\ ops' = ops (-) One(o)
    /\ IF rxAlive
       THEN /\ cmdq' = Append(cmdq, Ping("get", o.after))
            /\ lastRet' = NoRet
            /\ UNCHANGED registry
       ELSE /\ registry' = Removed
            /\ lastRet' = Ret("get", ping_result(FALSE, "none"), TRUE, "none", o.after)
            /\ UNCHANGED cmdq
    /\ UNCHANGED nonServerVars
    /\ UNCHANGED <<pc, rxAlive, stopTasks, srvReqRep, handles, awaited>>

\* ServerHandle::get(id): the ping resolved; Some(handle) when it was
\* answered, otherwise the entry is removed and None is returned.  (A caller
\* that holds MaxHandles handles drops the one returned at once.)
GetReturn(o) ==
    /\ o \in BagToSet(ops)
    /\ o.op = "get"
    /\ o.ph = "resolved"
    /\ LET ok == ping_result(TRUE, o.reply)
       IN /\ lastRet' = Ret("get", ok, TRUE, o.reply, o.after)
          /\ registry' = IF ok THEN registry ELSE Removed
          /\ handles' = IF ok /\ BagCardinality(handles) < MaxHandles
                        THEN handles (+) One(SpawnedHandle)
                        ELSE handles
    /\ ops' = ops (-) One(o)
    /\ UNCHANGED nonServerVars
    /\ UNCHANGED <<pc, cmdq, rxAlive, stopTasks, srvReqRep, awaited>>

\* ServerHandle::await_shutdown(self): the handle is moved into the call
AwaitStart(hd) ==
    /\ hd \in Held
    /\ BlockedCallers < MaxCallers
    /\ ops' = ops (+) One(Op("await", "wait", "none", FALSE))
    /\ handles' = handles (-) One(hd)
    /\ lastRet' = NoRet
    /\ UNCHANGED nonServerVars
    /\ UNCHANGED <<pc, cmdq, rxAlive, stopTasks, registry, srvReqRep, awaited>>

\* ServerHandle::await_shutdown: the supervisor's join handle resolved
AwaitReturn(o) ==
    /\ o \in BagToSet(ops)
    /\ o.op = "await"
    /\ pc \in {"done", "dropped"}
    /\ awaited' = TRUE
    /\ lastRet' = Ret("await_shutdown", TRUE, FALSE, "none", FALSE)
    /\ ops' = ops (-) One(o)
    /\ UNCHANGED nonServerVars
    /\ UNCHANGED <<pc, cmdq, rxAlive, stopTasks, registry, srvReqRep, handles>>

\* supervisor: ServerCommand::Ping(reply_chan) => reply_chan.send(())
SupervisorPing ==
    /\ pc = "running"
    /\ cmdq # <<>>
    /\ Head(cmdq).cmd = "Ping"
    /\ cmdq' = Tail(cmdq)
    /\ ops' = ops (+) One(Op(Head(cmdq).op, "resolved", "sent", Head(cmdq).after))
    /\ lastRet' = NoRet
    /\ UNCHANGED nonServerVars
    /\ UNCHANGED <<pc, rxAlive, stopTasks, registry, srvReqRep, handles, awaited>>

\* a supervisor that takes the Stop and stays in its loop
SupervisorStopIgnored ==
    /\ pc = "running"
    /\ cmdq # <<>>
    /\ Head(cmdq).cmd = "Stop"
    /\ cmdq' = Tail(cmdq)
    /\ lastRet' = NoRet
    /\ UNCHANGED nonServerVars
    /\ UNCHANGED <<pc, rxAlive, stopTasks, registry, srvReqRep, handles, ops, awaited>>

\* supervisor: ServerCommand::Stop => break
SupervisorStop ==
    /\ pc = "running"
    /\ cmdq # <<>>
    /\ Head(cmdq).cmd = "Stop"
    /\ cmdq' = Tail(cmdq)
    /\ pc' = "stopping"
    /\ lastRet' = NoRet
    /\ UNCHANGED nonServerVars
    /\ UNCHANGED <<rxAlive, stopTasks, registry, srvReqRep, handles, ops, awaited>>

\* supervisor, after the loop: listener.close(); socket.close();
\* SERVER_HANDLES.write().remove(&server_handle_id)
SupervisorShutdown ==
    /\ pc = "stopping"
    /\ pc' = "unregistered"
    /\ registry' = Removed
    /\ lastRet' = NoRet
    /\ UNCHANGED nonServerVars
    /\ UNCHANGED <<cmdq, rxAlive, stopTasks, srvReqRep, handles, ops, awaited>>

\* supervisor: the async block returns; the RemoteHandle (the join handle
\* that await_shutdown waits on) resolves
SupervisorReturn ==
    /\ pc = "unregistered"
    /\ pc' = "done"
    /\ lastRet' = NoRet
    /\ UNCHANGED nonServerVars
    /\ UNCHANGED <<cmdq, rxAlive, stopTasks, registry, srvReqRep, handles, ops, awaited>>

RECURSIVE Canceled(_)
\* the operations whose Ping is dropped with the queue q
Canceled(q) ==
    IF q = <<>> THEN EmptyBag
    ELSE IF Head(q).cmd = "Ping"
         THEN One(Op(Head(q).op, "resolved", "canceled", Head(q).after))
              (+) Canceled(Tail(q))
         ELSE Canceled(Tail(q))

\* a supervisor task that is finished but whose server_command_rx lives on:
\* the commands stay queued
SupervisorKeepsReceiver ==
    /\ pc = "done"
    /\ pc' = "dropped"
    /\ lastRet' = NoRet
    /\ UNCHANGED nonServerVars
    /\ UNCHANGED <<cmdq, rxAlive, stopTasks, registry, srvReqRep, handles, ops, awaited>>

\* the executor drops the finished supervisor task: server_command_rx is
\* dropped, and with it every command still queued (a queued Ping's reply
\* sender is dropped unanswered)
SupervisorDropped ==
    /\ pc = "done"
    /\ pc' = "dropped"
    /\ rxAlive' = FALSE
    /\ cmdq' = <<>>
    /\ ops' = ops (+) Canceled(cmdq)
    /\ lastRet' = NoRet
    /\ UNCHANGED nonServerVars
    /\ UNCHANGED <<stopTasks, registry, srvReqRep, handles, awaited>>

ServerNext ==
    \/ \E rid \in ServerReqRepIds : SpawnStart(rid)
    \/ SpawnRegister
    \/ \E hd \in Held : CloneHandle(hd)
    \/ \E rid \in ServerReqRepIds : TakeFromRegistry(rid)
    \/ \E hd \in Held : DropHandle(hd)
    \/ \E hd \in Held : StopAsync(hd)
    \/ StopTaskRun
    \/ \E hd \in Held : PingNoChannel(hd)
    \/ \E hd \in Held : PingSend(hd)
    \/ \E hd \in Held : PingSendFailed(hd)
    \/ \E o \in BagToSet(ops) : PingReturn(o)
    \/ GetLookup
    \/ \E o \in BagToSet(ops) : GetSend(o)
    \/ \E o \in BagToSet(ops) : GetReturn(o)
    \/ \E hd \in Held : AwaitStart(hd)
    \/ \E o \in BagToSet(ops) : AwaitReturn(o)
    \/ SupervisorPing
    \/ SupervisorStop
    \/ SupervisorShutdown
    \/ SupervisorReturn
    \/ SupervisorDropped

(***************************************************************************)
(* Part II.  ReqRep: a request channel, its backend task, the reply        *)
(* one-shots and the service instance gauge.                               *)
(***************************************************************************)

Instances == 1..MaxInstances
Calls == 1..MaxRequests

\* the ReqRepIds services are started with, and the requests sent (usize)
ReqRepIds == {"A", "B"}
Requests == {1, 2}

\* chan_buf_size, as the tests pass it
chan_buf_size == 1

\* MessageId::generate(): the id generated by the k-th send call
MessageId(k) == k

\* the test Processor Inc
process(req) == req + 1

ReqRepMessage(req, rep_sender, msg_id, id) ==
    [req |-> req, rep_sender |-> rep_sender, msg_id |-> msg_id,
     reqrep_id |-> id]

ReplyReceiver(msg_id, receiver) == [msg_id |-> msg_id, receiver |-> receiver]

NoOneshot == [st |-> "none", inst |-> 0, msg_id |-> 0, req |-> 0, val |-> 0,
              from |-> 0, n |-> 0]

NoSend == [op |-> "none", inst |-> 0, result |-> "none",
           receiver |-> ReplyReceiver(0, 0)]

\* the request receiver of channel i has not been dropped
ReceiverAlive(i) == bpc[i] \in {"spawned", "serving"}

\* futures mpsc::channel(n) holds n messages plus one per Sender
HasRoom(i) == Len(queue[i]) < chan_buf_size + senders[i]

\* From<mpsc::SendError> for ChannelSendError
ChannelSendErrorFrom(err) ==
    IF err = "disconnected" THEN "Disconnected" ELSE "Full"

\* a faulty send that generates a second MessageId for the ReplyReceiver
send_second_id(k, req, id) ==
    [msg |-> ReqRepMessage(req, k, MessageId(k), id),
     receiver |-> ReplyReceiver(MessageId(k + 1), k)]

\* ReqRep::send, what it builds: the message that carries the sending half of
\* the k-th one-shot, and the ReplyReceiver with the receiving half
send(k, req, id) ==
    [msg |-> ReqRepMessage(req, k, MessageId(k), id),
     receiver |-> ReplyReceiver(MessageId(k), k)]

\* a faulty send that ignores the channel's error
request_sender_send_ignored(alive) == "Ok"

\* ReqRep::send, `await!(self.request_sender.send(msg))?`
request_sender_send(alive) ==
    IF alive THEN "Ok" ELSE ChannelSendErrorFrom("disconnected")

\* a faulty backend that takes the newest message first
next_newest(q) == [msg |-> q[Len(q)], rest |-> SubSeq(q, 1, Len(q) - 1)]

\* req_receiver.next() on a channel that holds messages
next(q) == [msg |-> Head(q), rest |-> Tail(q)]

\* a faulty backend that leaves its loop as soon as the channel is empty
next_is_none_when_empty(i) == queue[i] = <<>>

\* req_receiver.next() yields None: the channel is empty and every Sender dropped
next_is_none(i) == queue[i] = <<>> /\ senders[i] = 0

\* Processor::destroy, invoked by the backend task when it exits: the
\* number of invocations after it
destroy(n) == n + 1

\* ReqRepMessage::take_request
take_request(msg) == msg.req

\* ReqRepMessage::reply, given the state of the one-shot's receiving half
reply(st) == IF st = "pending" THEN "Ok" ELSE "Disconnected"

\* a faulty backend that leaves its loop when a reply fails
on_reply_break(res) == IF res = "Ok" THEN "serving" ELSE "exited"

\* the backend after msg.reply(rep): an error is logged, the loop goes on
on_reply(res) == "serving"

\* a faulty backend that never decrements the gauge
service_count_leak(g) == g

\* service_count.inc(), service_count.dec()
service_count_inc(g) == g + 1
service_count_dec(g) == g - 1

ReqRepInit ==
    /\ kind = [i \in Instances |-> "none"]
    /\ bpc = [i \in Instances |-> "none"]
    /\ reqrep_id = [i \in Instances |-> "none"]
    /\ senders = [i \in Instances |-> 0]
    /\ queue = [i \in Instances |-> <<>>]
    /\ gauge = [id \in ReqRepIds |-> 0]
    /\ oneshot = [k \in Calls |-> NoOneshot]
    /\ sends = 0
    /\ enqLog = [i \in Instances |-> <<>>]
    /\ procLog = [i \in Instances |-> <<>>]
    /\ warned = [i \in Instances |-> 0]
    /\ destroyed = [i \in Instances |-> 0]
    /\ sendRet = NoSend

\* channels are created in the order of their index
Unused(i) == kind[i] = "none" /\ \A j \in Instances : j < i => kind[j] # "none"

\* ReqRep::start_service: the channel is created, the backend task is spawned
\* on the executor and the ReqRep handle is returned
StartService(i, id) ==
    /\ Unused(i)
    /\ kind' = [kind EXCEPT ![i] = "service"]
    /\ bpc' = [bpc EXCEPT ![i] = "spawned"]
    /\ reqrep_id' = [reqrep_id EXCEPT ![i] = id]
    /\ senders' = [senders EXCEPT ![i] = 1]
    /\ sendRet' = NoSend
    /\ UNCHANGED nonReqRepVars
    /\ UNCHANGED <<destroyed, queue, gauge, oneshot, sends, enqLog, procLog, warned>>

\* ReqRep::new: the caller gets the handle and the receiver, and runs its own
\* backend task on the receiver (as the tests do)
New(i, id) ==
    /\ Unused(i)
    /\ kind' = [kind EXCEPT ![i] = "new"]
    /\ bpc' = [bpc EXCEPT ![i] = "serving"]
    /\ reqrep_id' = [reqrep_id EXCEPT ![i] = id]
    /\ senders' = [senders EXCEPT ![i] = 1]
    /\ sendRet' = NoSend
    /\ UNCHANGED nonReqRepVars
    /\ UNCHANGED <<destroyed, queue, gauge, oneshot, sends, enqLog, procLog, warned>>

\* the backend task of a service is polled for the first time:
\* service_count.inc(), then the loop
BackendStart(i) ==
    /\ kind[i] = "service"
    /\ bpc[i] = "spawned"
    /\ bpc' = [bpc EXCEPT ![i] = "serving"]
    /\ gauge' = [gauge EXCEPT ![reqrep_id[i]] = service_count_inc(@)]
    /\ sendRet' = NoSend
    /\ UNCHANGED nonReqRepVars
    /\ UNCHANGED <<destroyed, kind, reqrep_id, senders, queue, oneshot, sends, enqLog, procLog, warned>>

\* one turn of the backend loop: the next message is taken, its request
\* processed and the reply sent on the message's one-shot
BackendProcess(i) ==
    /\ bpc[i] = "serving"
    /\ queue[i] # <<>>
    /\ LET d == next(queue[i])
           k == d.msg.rep_sender
           rep == process(take_request(d.msg))
           res == reply(oneshot[k].st)
       IN /\ queue' = [queue EXCEPT ![i] = d.rest]
          /\ oneshot' = IF res = "Ok"
                        THEN [oneshot EXCEPT ![k].st = "sent", ![k].val = rep,
                                             ![k].from = d.msg.msg_id,
                                             ![k].n = @ + 1]
                        ELSE oneshot
          /\ procLog' = [procLog EXCEPT ![i] = Append(@, d.msg.msg_id)]
          /\ warned' = [warned EXCEPT ![i] = IF res = "Ok" THEN @ ELSE @ + 1]
          /\ bpc' = [bpc EXCEPT ![i] = on_reply(res)]
    /\ sendRet' = NoSend
    /\ UNCHANGED nonReqRepVars
    /\ UNCHANGED <<destroyed, kind, reqrep_id, senders, gauge, sends, enqLog>>

\* the backend task of a service leaves its loop, every ReqRep handle being
\* dropped and the channel empty: service_count.dec(), and (in the version of
\* the harness that has Processor::destroy) processor.destroy()
BackendExit(i) ==
    /\ kind[i] = "service"
    /\ bpc[i] = "serving"
    /\ next_is_none(i)
    /\ bpc' = [bpc EXCEPT ![i] = "exited"]
    /\ gauge' = [gauge EXCEPT ![reqrep_id[i]] = service_count_dec(@)]
    /\ destroyed' = [destroyed EXCEPT ![i] = destroy(@)]
    /\ sendRet' = NoSend
    /\ UNCHANGED nonReqRepVars
    /\ UNCHANGED <<kind, reqrep_id, senders, queue, oneshot, sends, enqLog, procLog, warned>>

\* the one-shots after the messages of q are dropped unanswered
Dropped(q) ==
    [k \in Calls |->
        IF /\ \E n \in 1..Len(q) : q[n].rep_sender = k
           /\ oneshot[k].st = "pending"
        THEN [oneshot[k] EXCEPT !.st = "canceled"]
        ELSE oneshot[k]]

\* the backend task a caller runs on the receiver of ReqRep::new ends and
\* drops the receiver, with the messages still in the channel
ReceiverDropped(i) ==
    /\ kind[i] = "new"
    /\ bpc[i] = "serving"
    /\ bpc' = [bpc EXCEPT ![i] = "exited"]
    /\ queue' = [queue EXCEPT ![i] = <<>>]
    /\ oneshot' = Dropped(queue[i])
    /\ sendRet' = NoSend
    /\ UNCHANGED nonReqRepVars
    /\ UNCHANGED <<destroyed, kind, reqrep_id, senders, gauge, sends, enqLog, procLog, warned>>

\* #[derive(Clone)] on ReqRep
CloneReqRep(i) ==
    /\ senders[i] > 0
    /\ senders[i] < MaxClones
    /\ senders' = [senders EXCEPT ![i] = @ + 1]
    /\ sendRet' = NoSend
    /\ UNCHANGED nonReqRepVars
    /\ UNCHANGED <<destroyed, kind, bpc, reqrep_id, queue, gauge, oneshot, sends, enqLog, procLog, warned>>

\* a ReqRep handle is dropped
DropReqRep(i) ==
    /\ senders[i] > 0
    /\ senders' = [senders EXCEPT ![i] = @ - 1]
    /\ sendRet' = NoSend
    /\ UNCHANGED nonReqRepVars
    /\ UNCHANGED <<destroyed, kind, bpc, reqrep_id, queue, gauge, oneshot, sends, enqLog, procLog, warned>>

\* ReqRep::send(req) on a handle of channel i, from the moment the channel
\* takes the message or refuses it (a send to a full channel waits)
Send(i, req) ==
    /\ senders[i] > 0
    /\ sends < MaxRequests
    /\ ReceiverAlive(i) => HasRoom(i)
    /\ LET k == sends + 1
           s == send(k, req, reqrep_id[i])
           res == request_sender_send(ReceiverAlive(i))
       IN /\ sends' = k
          /\ IF res = "Ok"
             THEN /\ queue' = [queue EXCEPT ![i] = Append(@, s.msg)]
                  /\ enqLog' = [enqLog EXCEPT ![i] = Append(@, s.msg.msg_id)]
                  /\ oneshot' = [oneshot EXCEPT ![k] =
                        [st |-> "pending", inst |-> i,
                         msg_id |-> s.receiver.msg_id, req |-> req,
                         val |-> 0, from |-> 0, n |-> 0]]
                  /\ sendRet' = [op |-> "send", inst |-> i, result |-> "Ok",
                                 receiver |-> s.receiver]
             ELSE /\ sendRet' = [op |-> "send", inst |-> i, result |-> res,
                                 receiver |-> ReplyReceiver(0, 0)]
                  /\ UNCHANGED <<queue, enqLog, oneshot>>
    /\ UNCHANGED nonReqRepVars
    /\ UNCHANGED <<destroyed, kind, bpc, reqrep_id, senders, gauge, procLog, warned>>

\* ReplyReceiver::recv resolves: with the reply, or with Canceled
Recv(k) ==
    /\ oneshot[k].st \in {"sent", "canceled"}
    /\ oneshot' = [oneshot EXCEPT ![k].st =
                      IF @ = "sent" THEN "received" ELSE "recv_canceled"]
    /\ sendRet' = NoSend
    /\ UNCHANGED nonReqRepVars
    /\ UNCHANGED <<destroyed, kind, bpc, reqrep_id, senders, queue, gauge, sends, enqLog, procLog, warned>>

\* ReplyReceiver::close, or the ReplyReceiver is dropped, before the reply
Close(k) ==
    /\ oneshot[k].st = "pending"
    /\ oneshot' = [oneshot EXCEPT ![k].st = "closed"]
    /\ sendRet' = NoSend
    /\ UNCHANGED nonReqRepVars
    /\ UNCHANGED <<destroyed, kind, bpc, reqrep_id, senders, queue, gauge, sends, enqLog, procLog, warned>>

\* no channel has been created
NoChannel == \A i \in Instances : kind[i] = "none"

\* one channel, made either way, with its handles, requests and replies
ReqRepNext ==
    \/ \E i \in Instances, id \in ReqRepIds : NoChannel /\ StartService(i, id)
    \/ \E i \in Instances, id \in ReqRepIds : NoChannel /\ New(i, id)
    \/ \E i \in Instances : BackendStart(i)
    \/ \E i \in Instances : BackendProcess(i)
    \/ \E i \in Instances : BackendExit(i)
    \/ \E i \in Instances : ReceiverDropped(i)
    \/ \E i \in Instances : CloneReqRep(i)
    \/ \E i \in Instances : DropReqRep(i)
    \/ \E i \in Instances, req \in Requests : Send(i, req)
    \/ \E k \in Calls : Recv(k)
    \/ \E k \in Calls : Close(k)

(***************************************************************************)

\* number of requests that are sent to the services of ServicesSpec
MaxServiceSends == 1

\* several services, which may share a ReqRepId, with their handles
ServicesNext ==
    \/ \E i \in Instances, id \in ReqRepIds : StartService(i, id)
    \/ \E i \in Instances : BackendStart(i)
    \/ \E i \in Instances : BackendProcess(i)
    \/ \E i \in Instances : BackendExit(i)
    \/ \E i \in Instances : CloneReqRep(i)
    \/ \E i \in Instances : DropReqRep(i)
    \/ \E i \in Instances, req \in Requests :
          sends < MaxServiceSends /\ Send(i, req)

(***************************************************************************)
(* Part III.  The nng client registry of                                   *)
(* oysterpack-trust/src/opnng/reqrep/client.rs.                            *)
(*                                                                         *)
(* CLIENTS maps a ReqRepId to the registered Client, a ReqRep handle of    *)
(* the backend service that owns the NngClient.  register_client holds     *)
(* CLIENTS' write lock from its first statement to its return; its steps   *)
(* under the lock are separate actions of the model, so that the lock is   *)
(* what keeps concurrent calls apart.                                      *)
(***************************************************************************)

\* number of threads that call register_client
MaxThreads == 2
\* number of client backends that are created
MaxBackends == 2
\* number of Client handles of one backend that callers hold
MaxClientHandles == 2

Threads == 1..MaxThreads
Backends == 1..MaxBackends
\* the ReqRepIds clients are registered with
ClientIds == {"A", "B"}

\* Option::None of a registry lookup, and the Err of register_client
NoClient == 0
\* no registry function returned in the last step
NoClientRet == [op |-> "none"]
ClientRet(op, id, ret) == [op |-> op, id |-> id, ret |-> ret]

\* CLIENTS.write() with no regard for the holder of the lock
write_unguarded(lock) == TRUE
\* CLIENTS.write(): the lock can be taken when nobody holds it
write(lock) == lock = 0

\* clients.get(&id)
clients_get(map, id) == map[id]
\* clients.insert(id, reqrep)
clients_insert(map, id, b) == [map EXCEPT ![id] = b]
\* clients.remove(&id)
clients_remove(map, id) == [map EXCEPT ![id] = NoClient]

\* the handles of a backend's request channel without the registry's clone
request_senders_of_callers(b) ==
    chandles[b] + Cardinality({t \in Threads : tpc[t] = "unlock" /\ tres[t] = b})
\* the live handles of a backend's request channel: those of callers, those
\* register_client is about to return, and the clone CLIENTS holds
request_senders(b) ==
    chandles[b]
    + Cardinality({t \in Threads : tpc[t] = "unlock" /\ tres[t] = b})
    + (IF backend_id[b] # "none" /\ CLIENTS[backend_id[b]] = b THEN 1 ELSE 0)

RegistryInit ==
    /\ CLIENTS = [id \in ClientIds |-> NoClient]
    /\ clients_lock = 0
    /\ tpc = [t \in Threads |-> "idle"]
    /\ targ = [t \in Threads |-> "none"]
    /\ tres = [t \in Threads |-> NoClient]
    /\ built = 0
    /\ backend_id = [b \in Backends |-> "none"]
    /\ crunning = [b \in Backends |-> "none"]
    /\ chandles = [b \in Backends |-> 0]
    /\ unregistered = [id \in ClientIds |-> 0]
    /\ clientRet = NoClientRet

\* register_client: `let mut clients = CLIENTS.write().unwrap()`
RegisterLock(t, id) ==
    /\ tpc[t] = "idle"
    /\ write(clients_lock)
    /\ clients_lock' = t
    /\ tpc' = [tpc EXCEPT ![t] = "get"]
    /\ targ' = [targ EXCEPT ![t] = id]
    /\ tres' = [tres EXCEPT ![t] = NoClient]
    /\ clientRet' = NoClientRet
    /\ UNCHANGED <<CLIENTS, built, backend_id, crunning, chandles, unregistered>>
    /\ UNCHANGED nonRegistryVars

\* register_client: `match clients.get(..)`; Some(reqrep) => reqrep.clone()
RegisterGet(t) ==
    /\ tpc[t] = "get"
    /\ LET b == clients_get(CLIENTS, targ[t]) IN
        IF b # NoClient
        THEN /\ request_senders(b) < MaxClientHandles + 1
             /\ tres' = [tres EXCEPT ![t] = b]
             /\ tpc' = [tpc EXCEPT ![t] = "unlock"]
        ELSE /\ tpc' = [tpc EXCEPT ![t] = "new"]
             /\ UNCHANGED tres
    /\ clientRet' = NoClientRet
    /\ UNCHANGED <<CLIENTS, clients_lock, targ, built, backend_id, crunning,
                   chandles, unregistered>>
    /\ UNCHANGED nonRegistryVars

\* register_client, None: NngClient::new creates the context and, in
\* start_workers, calls executor.spawn_await for the send of each req_tx to
\* the pool: the calling thread is blocked until the executor has run the
\* sends
RegisterSpawnAwait(t) ==
    /\ tpc[t] = "new"
    /\ tpc' = [tpc EXCEPT ![t] = "spawn_await"]
    /\ clientRet' = NoClientRet
    /\ UNCHANGED <<CLIENTS, clients_lock, targ, tres, built, backend_id, crunning,
                   chandles, unregistered>>
    /\ UNCHANGED nonRegistryVars

\* register_client, None: the executor has run the sends; the rest of
\* NngClient::new, start_service and clients.insert
RegisterNewClient(t) ==
    /\ tpc[t] = "spawn_await"
    /\ built < MaxBackends
    /\ LET b == built + 1 IN
        /\ built' = b
        /\ backend_id' = [backend_id EXCEPT ![b] = targ[t]]
        /\ crunning' = [crunning EXCEPT ![b] = "running"]
        /\ CLIENTS' = clients_insert(CLIENTS, targ[t], b)
        /\ tres' = [tres EXCEPT ![t] = b]
    /\ tpc' = [tpc EXCEPT ![t] = "unlock"]
    /\ clientRet' = NoClientRet
    /\ UNCHANGED <<clients_lock, targ, chandles, unregistered>>

\* register_client, None arm, of a client whose NngClient is not followed
RegisterNew(t) ==
    /\ RegisterNewClient(t)
    /\ UNCHANGED nonRegistryVars

\* register_client, None: NngClient::new or start_service returns an Err,
\* which `?` returns to the caller
RegisterNewFailed(t) ==
    /\ tpc[t] \in {"new", "spawn_await"}
    /\ tres' = [tres EXCEPT ![t] = NoClient]
    /\ tpc' = [tpc EXCEPT ![t] = "unlock"]
    /\ clientRet' = NoClientRet
    /\ UNCHANGED <<CLIENTS, clients_lock, targ, built, backend_id, crunning,
                   chandles, unregistered>>
    /\ UNCHANGED nonRegistryVars

\* register_client returns: the lock guard is dropped, the caller owns the
\* handle
RegisterReturn(t) ==
    /\ tpc[t] = "unlock"
    /\ clients_lock' = IF clients_lock = t THEN 0 ELSE clients_lock
    /\ tpc' = [tpc EXCEPT ![t] = "idle"]
    /\ chandles' = IF tres[t] # NoClient
                   THEN [chandles EXCEPT ![tres[t]] = @ + 1]
                   ELSE chandles
    /\ clientRet' = ClientRet("register_client", targ[t], tres[t])
    /\ targ' = [targ EXCEPT ![t] = "none"]
    /\ tres' = [tres EXCEPT ![t] = NoClient]
    /\ UNCHANGED <<CLIENTS, built, backend_id, crunning, unregistered>>
    /\ UNCHANGED nonRegistryVars

\* unregister_client(id)
UnregisterClient(id) ==
    /\ write(clients_lock)
    /\ LET b == clients_get(CLIENTS, id) IN
        /\ b # NoClient => chandles[b] < MaxClientHandles
        /\ CLIENTS' = clients_remove(CLIENTS, id)
        /\ chandles' = IF b # NoClient THEN [chandles EXCEPT ![b] = @ + 1]
                       ELSE chandles
        /\ unregistered' = IF b # NoClient
                           THEN [unregistered EXCEPT ![id] = @ + 1]
                           ELSE unregistered
        /\ clientRet' = ClientRet("unregister_client", id, b)
    /\ UNCHANGED <<clients_lock, tpc, targ, tres, built, backend_id, crunning>>
    /\ UNCHANGED nonRegistryVars

\* client(id): CLIENTS.read() waits while a writer holds the lock
GetClient(id) ==
    /\ write(clients_lock)
    /\ LET b == clients_get(CLIENTS, id) IN
        /\ b # NoClient => chandles[b] < MaxClientHandles
        /\ chandles' = IF b # NoClient THEN [chandles EXCEPT ![b] = @ + 1]
                       ELSE chandles
        /\ clientRet' = ClientRet("client", id, b)
    /\ UNCHANGED <<CLIENTS, clients_lock, tpc, targ, tres, built, backend_id,
                   crunning, unregistered>>
    /\ UNCHANGED nonRegistryVars

\* a caller drops a Client handle
DropClient(b) ==
    /\ chandles[b] > 0
    /\ chandles' = [chandles EXCEPT ![b] = @ - 1]
    /\ clientRet' = NoClientRet
    /\ UNCHANGED <<CLIENTS, clients_lock, tpc, targ, tres, built, backend_id,
                   crunning, unregistered>>
    /\ UNCHANGED nonRegistryVars

\* the backend service task of a client finds its request channel closed
\* (every handle is dropped) and returns
ClientBackendExit(b) ==
    /\ crunning[b] = "running"
    /\ request_senders(b) = 0
    /\ crunning' = [crunning EXCEPT ![b] = "exited"]
    /\ clientRet' = NoClientRet
    /\ UNCHANGED <<CLIENTS, clients_lock, tpc, targ, tres, built, backend_id,
                   chandles, unregistered>>
    /\ UNCHANGED nonRegistryVars

RegistryNext ==
    \/ \E t \in Threads, id \in ClientIds : RegisterLock(t, id)
    \/ \E t \in Threads : RegisterGet(t)
    \/ \E t \in Threads : RegisterSpawnAwait(t)
    \/ \E t \in Threads : RegisterNew(t)
    \/ \E t \in Threads : RegisterNewFailed(t)
    \/ \E t \in Threads : RegisterReturn(t)
    \/ \E id \in ClientIds : UnregisterClient(id)
    \/ \E id \in ClientIds : GetClient(id)
    \/ \E b \in Backends : DropClient(b)
    \/ \E b \in Backends : ClientBackendExit(b)

(***************************************************************************)
(* Part IV.  The NngClient of oysterpack-trust/src/opnng/reqrep/client.rs: *)
(* the backend service task that runs NngClient::process, the pool broker  *)
(* task and the AIO context tasks.                                         *)
(*                                                                         *)
(* The model follows the NngClient of backend 1, registered under          *)
(* ReqRepId "A".  The service task takes one request at a time from the     *)
(* request channel, awaits process and replies, and calls destroy when the *)
(* channel is closed.  The tasks run on a multi-threaded executor: every   *)
(* step of a task between two awaits is an action, and a step that sends   *)
(* on two channels is two actions, since the task woken by the first send  *)
(* runs on another thread.  What nng answers to an operation is an input. *)
(***************************************************************************)

\* number of AIO contexts of the client: DialerConfig::parallelism()
parallelism == 1
\* number of requests that are sent on Client handles
MaxClientRequests == 2

\* the backend and the ReqRepId that Part IV follows
TheBackend == 1
TheClientId == "A"

AioContexts == 1..parallelism
\* the borrow request's one-shot was dropped by the broker
ReplyChanDropped == parallelism + 1
ClientSends == 1..MaxClientRequests

\* nothing was sent on a one-shot yet
NoOutcome == [kind |-> "none", msg |-> 0]
RequestError(e) == [kind |-> e, msg |-> 0]
OkReply(msg) == [kind |-> "Ok", msg |-> msg]

\* what nng answers when an operation is issued, and in aio.result()
AioResults == {"Ok", "Err"}
\* aio.result() and aio.get_msg() of a completed recv
RecvResults == {"Ok", "NoMsg", "Err"}
\* the nng::Message of the k-th send: every request differs from the others
message(k) == k
\* the message the echo server replies to a request
echo(msg) == msg

\* an AIO context task that takes a send that nng accepted for the reply
reply_for_unsent(stage, result, msg) ==
    IF result = "Err"
    THEN IF stage \in {"send", "send_result"} THEN RequestError("SendFailed")
         ELSE RequestError("RecvFailed")
    ELSE IF stage \in {"send", "recv_result"}
         THEN IF result = "NoMsg" THEN RequestError("NoReplyMessage")
              ELSE OkReply(msg)
         ELSE NoOutcome

\* the AIO context task reports every failure as a failed recv
reply_for_recv_failed(stage, result, msg) ==
    IF result = "Err" THEN RequestError("RecvFailed")
    ELSE IF stage = "recv_result"
         THEN IF result = "NoMsg" THEN RequestError("NoReplyMessage")
              ELSE OkReply(msg)
         ELSE NoOutcome

\* the AIO context task: what it sends on req.reply_chan after nng answered
\* `result` at `stage` (NoOutcome: nothing, the request goes on)
reply_for(stage, result, msg) ==
    IF result = "Err"
    THEN IF stage \in {"send", "send_result"} THEN RequestError("SendFailed")
         ELSE RequestError("RecvFailed")
    ELSE IF stage = "recv_result"
         THEN IF result = "NoMsg" THEN RequestError("NoReplyMessage")
              ELSE OkReply(msg)
         ELSE NoOutcome

\* the pool keeps a returned sender only after a successful request
pool_return_after_ok(pool, closed, c, out) ==
    IF closed \/ out.kind # "Ok" THEN pool ELSE Append(pool, c)

\* aio_context_pool_return.send(req_tx.clone()): the sender is back in the
\* pool unless the pool channel is closed, whatever the request's outcome
pool_return(pool, closed, c, out) ==
    IF closed THEN pool ELSE Append(pool, c)

\* the one-shot of process resolves to another request's reply
process_result_any(k) ==
    IF \E j \in ClientSends : j # k /\ outcomes[j] # <<>>
    THEN outcomes[CHOOSE j \in ClientSends : j # k /\ outcomes[j] # <<>>][1]
    ELSE IF outcomes[k] # <<>> THEN outcomes[k][1]
    ELSE RequestError("ReplyChannelClosed")

\* process: `match await!(rx)`: the result sent on the Request's reply_chan,
\* or ReplyChannelClosed when reply_chan was dropped
process_result(k) ==
    IF outcomes[k] # <<>> THEN outcomes[k][1]
    ELSE RequestError("ReplyChannelClosed")

\* a step of the NngClient's tasks calls no registry function
RegistryUntouched ==
    /\ clientRet' = NoClientRet
    /\ UNCHANGED <<CLIENTS, clients_lock, tpc, targ, tres, built, backend_id,
                   crunning, chandles, unregistered>>

NngClientInit ==
    /\ client_context = "none"
    /\ client_req = [k \in ClientSends |-> 0]
    /\ client_queue = <<>>
    /\ client_reply = [k \in ClientSends |-> NoOutcome]
    /\ kpc = "none"
    /\ kcur = 0
    /\ kctx = 0
    /\ borrow_chan = 0
    /\ borrow_closed = FALSE
    /\ borrowed = 0
    /\ ppc = "none"
    /\ aio_context_pool = <<>>
    /\ pool_closed = FALSE
    /\ xpc = [c \in AioContexts |-> "none"]
    /\ req_chan = [c \in AioContexts |-> 0]
    /\ req_closed = [c \in AioContexts |-> FALSE]
    /\ xcur = [c \in AioContexts |-> 0]
    /\ outcomes = [k \in ClientSends |-> <<>>]
    /\ aio_log = [k \in ClientSends |-> <<>>]
    /\ handled_by = [k \in ClientSends |-> 0]

\* NngClient::new: the context, one task and one pooled request sender per
\* AIO context, the registration in CLIENT_CONTEXTS and the broker task;
\* start_service: the backend service task
NngClientNew ==
    /\ client_context' = "registered"
    /\ aio_context_pool' = [c \in AioContexts |-> c]
    /\ xpc' = [c \in AioContexts |-> "idle"]
    /\ ppc' = "next"
    /\ kpc' = "next"
    /\ UNCHANGED <<callerVars, kcur, kctx, borrow_chan, borrow_closed, borrowed,
                   pool_closed, req_chan, req_closed, xcur, outcomes, aio_log,
                   handled_by>>

\* register_client of the followed client is called once
RegisterOnce ==
    /\ built = 0
    /\ RegisterLock(1, TheClientId)

\* register_client of the followed client, None arm
RegisterNngClient(t) ==
    /\ built = 0
    /\ targ[t] = TheClientId
    /\ RegisterNewClient(t)
    /\ NngClientNew
    /\ UNCHANGED nonClientVars

\* Client::send on a handle a caller holds
ClientSend(k) ==
    /\ chandles[TheBackend] > 0
    /\ crunning[TheBackend] = "running"
    /\ client_req[k] = 0
    /\ \A j \in ClientSends : j < k => client_req[j] # 0
    /\ client_req' = [client_req EXCEPT ![k] = message(k)]
    /\ client_queue' = Append(client_queue, k)
    /\ UNCHANGED <<client_reply, backendVars, brokerVars, aioVars>>
    /\ RegistryUntouched
    /\ UNCHANGED nonClientVars

\* the service task: req_receiver.next() yields a request
ServiceNext ==
    /\ kpc = "next"
    /\ client_queue # <<>>
    /\ kcur' = Head(client_queue)
    /\ client_queue' = Tail(client_queue)
    /\ kpc' = "borrow"
    /\ UNCHANGED <<client_req, client_reply, client_context, kctx, brokerVars,
                   aioVars>>
    /\ RegistryUntouched
    /\ UNCHANGED nonClientVars

\* process: await!(borrow.send(borrow_tx))
ProcessBorrow ==
    /\ kpc = "borrow"
    /\ IF borrow_closed \/ ppc = "done"
       THEN /\ client_reply' = [client_reply EXCEPT ![kcur] =
                    RequestError("NngAioContextPoolChannelDisconnected")]
            /\ kpc' = "next"
            /\ kcur' = 0
            /\ UNCHANGED borrow_chan
       ELSE /\ borrow_chan' = borrow_chan + 1
            /\ kpc' = "borrow_wait"
            /\ UNCHANGED <<client_reply, kcur>>
    /\ UNCHANGED <<client_req, client_queue, client_context, kctx, borrow_closed,
                   borrowed, ppc, aio_context_pool, pool_closed, aioVars>>
    /\ RegistryUntouched
    /\ UNCHANGED nonClientVars

\* process: await!(borrow_rx), then await!(sender.send(request))
ProcessSend ==
    /\ kpc = "borrow_wait"
    /\ borrowed # 0
    /\ borrowed' = 0
    /\ IF borrowed = ReplyChanDropped
       THEN /\ client_reply' = [client_reply EXCEPT ![kcur] =
                    RequestError("NngAioContextPoolChannelDisconnected")]
            /\ kpc' = "next"
            /\ kcur' = 0
            /\ UNCHANGED <<kctx, req_chan>>
       ELSE IF req_closed[borrowed]
       THEN /\ client_reply' = [client_reply EXCEPT ![kcur] =
                    RequestError("AioContextChannelDisconnected")]
            /\ kpc' = "next"
            /\ kcur' = 0
            /\ UNCHANGED <<kctx, req_chan>>
       ELSE /\ req_chan' = [req_chan EXCEPT ![borrowed] = kcur]
            /\ kctx' = borrowed
            /\ kpc' = "reply_wait"
            /\ UNCHANGED <<client_reply, kcur>>
    /\ UNCHANGED <<client_req, client_queue, client_context, borrow_chan,
                   borrow_closed, ppc, aio_context_pool, pool_closed, xpc,
                   req_closed, xcur, outcomes, aio_log, handled_by>>
    /\ RegistryUntouched
    /\ UNCHANGED nonClientVars

\* process: await!(rx) resolves; the service task sends the result on the
\* caller's one-shot
ProcessReply ==
    /\ kpc = "reply_wait"
    /\ outcomes[kcur] # <<>>
    /\ client_reply' = [client_reply EXCEPT ![kcur] = process_result(kcur)]
    /\ kpc' = "next"
    /\ kcur' = 0
    /\ kctx' = 0
    /\ UNCHANGED <<client_req, client_queue, client_context, brokerVars, aioVars>>
    /\ RegistryUntouched
    /\ UNCHANGED nonClientVars

\* the service task: req_receiver.next() yields None, the task calls
\* NngClient::destroy and returns
ServiceExit ==
    /\ kpc = "next"
    /\ client_queue = <<>>
    /\ request_senders(TheBackend) = 0
    /\ kpc' = "exited"
    /\ crunning' = [crunning EXCEPT ![TheBackend] = "exited"]
    /\ client_context' = "destroyed"
    /\ pool_closed' = TRUE
    /\ borrow_closed' = TRUE
    /\ clientRet' = NoClientRet
    /\ UNCHANGED <<callerVars, kcur, kctx, borrow_chan, borrowed, ppc,
                   aio_context_pool, aioVars>>
    /\ UNCHANGED <<CLIENTS, clients_lock, tpc, targ, tres, built, backend_id,
                   chandles, unregistered>>
    /\ UNCHANGED nonClientVars

\* the future of process is dropped while it awaits borrow_rx, with the
\* service task that polls it: the one-shot goes with it, and the sender it
\* may hold already; destroy is not called
ProcessDropped ==
    /\ kpc = "borrow_wait"
    /\ kpc' = "dropped"
    /\ kcur' = 0
    /\ borrowed' = 0
    /\ crunning' = [crunning EXCEPT ![TheBackend] = "exited"]
    /\ clientRet' = NoClientRet
    /\ UNCHANGED <<callerVars, client_context, kctx, borrow_chan, borrow_closed,
                   ppc, aio_context_pool, pool_closed, aioVars>>
    /\ UNCHANGED <<CLIENTS, clients_lock, tpc, targ, tres, built, backend_id,
                   chandles, unregistered>>
    /\ UNCHANGED nonClientVars

\* the broker: await!(borrow_rx.next())
BrokerNext ==
    /\ ppc = "next"
    /\ \/ /\ borrow_chan > 0
          /\ borrow_chan' = borrow_chan - 1
          /\ ppc' = "pool"
       \/ /\ borrow_chan = 0
          /\ borrow_closed
          /\ ppc' = "drain"
          /\ UNCHANGED borrow_chan
    /\ UNCHANGED <<callerVars, backendVars, borrow_closed, borrowed,
                   aio_context_pool, pool_closed, aioVars>>
    /\ RegistryUntouched
    /\ UNCHANGED nonClientVars

\* `let _ = reply_chan.send(request_sender)`: what the borrower's one-shot
\* holds afterwards; when the borrower is gone the send fails and the
\* sender it gives back is dropped
lend(request_sender, waiting) == IF waiting THEN request_sender ELSE 0

\* the broker: await!(aio_context_pool_borrow.next()), then the sender is
\* sent to the borrower, or the loop is left
BrokerLend ==
    /\ ppc = "pool"
    /\ \/ /\ aio_context_pool # <<>>
          /\ borrowed' = lend(Head(aio_context_pool), kpc = "borrow_wait")
          /\ aio_context_pool' = Tail(aio_context_pool)
          /\ ppc' = "next"
       \/ /\ aio_context_pool = <<>>
          /\ pool_closed
          /\ borrowed' = ReplyChanDropped
          /\ ppc' = "drain"
          /\ UNCHANGED aio_context_pool
    /\ UNCHANGED <<callerVars, backendVars, borrow_chan, borrow_closed,
                   pool_closed, aioVars>>
    /\ RegistryUntouched
    /\ UNCHANGED nonClientVars

\* the broker drains the pool and closes the request channels of the
\* senders it finds
BrokerDrain ==
    /\ ppc = "drain"
    /\ aio_context_pool # <<>>
    /\ req_closed' = [req_closed EXCEPT ![Head(aio_context_pool)] = TRUE]
    /\ aio_context_pool' = Tail(aio_context_pool)
    /\ UNCHANGED <<callerVars, backendVars, borrow_chan, borrow_closed, borrowed,
                   ppc, pool_closed, xpc, req_chan, xcur, outcomes, aio_log,
                   handled_by>>
    /\ RegistryUntouched
    /\ UNCHANGED nonClientVars

\* the broker finds the pool channel closed and empty and returns
BrokerExit ==
    /\ ppc = "drain"
    /\ aio_context_pool = <<>>
    /\ pool_closed
    /\ ppc' = "done"
    /\ UNCHANGED <<callerVars, backendVars, borrow_chan, borrow_closed, borrowed,
                   aio_context_pool, pool_closed, aioVars>>
    /\ RegistryUntouched
    /\ UNCHANGED nonClientVars

\* an AIO context task ends the handling of a request with an outcome, or
\* goes on to wait for the next Aio event
AioStep(c, k, stage, result, waiting) ==
    LET out == reply_for(stage, result, echo(client_req[k])) IN
        /\ aio_log' = [aio_log EXCEPT ![k] = <<stage, result>>]
        /\ IF out = NoOutcome
           THEN /\ xpc' = [xpc EXCEPT ![c] = waiting]
                /\ UNCHANGED outcomes
           ELSE /\ xpc' = [xpc EXCEPT ![c] = "replied"]
                /\ outcomes' = [outcomes EXCEPT ![k] = Append(@, out)]

\* an AIO context task: req_rx.next() yields a Request, context.send
AioSend(c, result) ==
    /\ xpc[c] = "idle"
    /\ req_chan[c] # 0
    /\ req_chan' = [req_chan EXCEPT ![c] = 0]
    /\ xcur' = [xcur EXCEPT ![c] = req_chan[c]]
    /\ handled_by' = [handled_by EXCEPT ![req_chan[c]] = c]
    /\ AioStep(c, req_chan[c], "send", result, "sending")
    /\ UNCHANGED <<callerVars, backendVars, brokerVars, req_closed>>
    /\ RegistryUntouched
    /\ UNCHANGED nonClientVars

\* an AIO context task: the callback fired for the send; aio.result(), then
\* context.recv
AioSent(c, result, issued) ==
    /\ xpc[c] = "sending"
    /\ IF result = "Err"
       THEN AioStep(c, xcur[c], "send_result", result, "sending")
       ELSE AioStep(c, xcur[c], "recv", issued, "receiving")
    /\ UNCHANGED <<callerVars, backendVars, brokerVars, req_chan, req_closed,
                   xcur, handled_by>>
    /\ RegistryUntouched
    /\ UNCHANGED nonClientVars

\* an AIO context task: the callback fired for the recv; aio.result() and
\* aio.get_msg()
AioReceived(c, result) ==
    /\ xpc[c] = "receiving"
    /\ AioStep(c, xcur[c], "recv_result", result, "receiving")
    /\ UNCHANGED <<callerVars, backendVars, brokerVars, req_chan, req_closed,
                   xcur, handled_by>>
    /\ RegistryUntouched
    /\ UNCHANGED nonClientVars

\* an AIO context task: the request sender goes back to the pool
AioReturn(c) ==
    /\ xpc[c] = "replied"
    /\ aio_context_pool' = pool_return(aio_context_pool, pool_closed, c,
                                       outcomes[xcur[c]][1])
    /\ xpc' = [xpc EXCEPT ![c] = "idle"]
    /\ xcur' = [xcur EXCEPT ![c] = 0]
    /\ UNCHANGED <<callerVars, backendVars, borrow_chan, borrow_closed, borrowed,
                   ppc, pool_closed, req_chan, req_closed, outcomes, aio_log,
                   handled_by>>
    /\ RegistryUntouched
    /\ UNCHANGED nonClientVars

\* an AIO context task: req_rx.next() yields None, the task returns
AioExit(c) ==
    /\ xpc[c] = "idle"
    /\ req_chan[c] = 0
    /\ req_closed[c]
    /\ xpc' = [xpc EXCEPT ![c] = "exited"]
    /\ UNCHANGED <<callerVars, backendVars, brokerVars, req_chan, req_closed,
                   xcur, outcomes, aio_log, handled_by>>
    /\ RegistryUntouched
    /\ UNCHANGED nonClientVars

\* the steps of the tasks of the NngClient
NngClientTasks ==
    \/ ServiceNext
    \/ ProcessBorrow
    \/ ProcessSend
    \/ ProcessReply
    \/ ServiceExit
    \/ BrokerNext
    \/ BrokerLend
    \/ BrokerDrain
    \/ BrokerExit
    \/ \E c \in AioContexts : AioReturn(c)
    \/ \E c \in AioContexts : AioExit(c)

\* the followed client is registered once; callers take, use and drop
\* handles and unregister the client
NngClientCallers ==
    \/ RegisterOnce
    \/ RegisterGet(1)
    \/ RegisterSpawnAwait(1)
    \/ RegisterNngClient(1)
    \/ RegisterReturn(1)
    \/ UnregisterClient(TheClientId)
    \/ GetClient(TheClientId)
    \/ DropClient(TheBackend)
    \/ \E k \in ClientSends : ClientSend(k)

\* nng answers whatever it likes
ClientNext ==
    \/ NngClientCallers
    \/ NngClientTasks
    \/ \E c \in AioContexts, result \in AioResults : AioSend(c, result)
    \/ \E c \in AioContexts, result, issued \in AioResults :
          AioSent(c, result, issued)
    \/ \E c \in AioContexts, result \in RecvResults : AioReceived(c, result)

\* the echo server is running: every nng operation succeeds
EchoNext ==
    \/ NngClientCallers
    \/ NngClientTasks
    \/ \E c \in AioContexts : AioSend(c, "Ok")
    \/ \E c \in AioContexts : AioSent(c, "Ok", "Ok")
    \/ \E c \in AioContexts : AioReceived(c, "Ok")

(***************************************************************************)
(* Part V.  The rpc server of                                              *)
(* oysterpack-message/src/protocol/rpc/server.rs.                          *)
(*                                                                         *)
(* The server thread creates aio_context_count AIO contexts, each with an   *)
(* Aio whose callback is handle_aio_event, and issues a recv on each.  nng *)
(* hands a request to a context that has a recv outstanding and calls the  *)
(* callback; the callback runs MessageProcessor::process, which may take   *)
(* long, inside the callback.  What nng answers to an operation is an      *)
(* input.                                                                  *)
(***************************************************************************)

\* ListenerSettings::aio_context_count
aio_context_count == 2
\* number of requests that clients send
MaxRpcRequests == 3

RpcContexts == 1..aio_context_count
RpcRequests == 1..MaxRpcRequests

\* the callback returned without issuing an operation
NoAioOp == "none"

\* the Aio of a context has a recv outstanding while its callback processes
\* a request
processing_with_recv(state) == [state |-> state, op |-> "recv"]

\* handle_aio_event, AioState::Recv, a request arrived: while process runs
\* inside the callback the Aio has no operation outstanding
processing(state) == [state |-> state, op |-> NoAioOp]

\* handle_aio_event, AioState::Recv, Ok, Some(req), after process: aio.send
replied(result) ==
    IF result = "Ok" THEN [state |-> "Send", op |-> "send"]
    ELSE [state |-> "Recv", op |-> "recv"]

\* handle_aio_event, AioState::Recv, without a request: Ok and no message
\* issues a recv, Err issues nothing
recv_without_message(result) ==
    IF result = "NoMsg" THEN [state |-> "Recv", op |-> "recv"]
    ELSE [state |-> "Recv", op |-> NoAioOp]

\* handle_aio_event, AioState::Send: whatever the result, aio.recv
sent(result) == [state |-> "Recv", op |-> "recv"]

\* the contexts whose callback is handling a request
Occupied == {c \in RpcContexts : rpc_cur[c] # 0}

RpcInit ==
    /\ rpc_running = "none"
    /\ rpc_state = [c \in RpcContexts |-> "Recv"]
    /\ rpc_op = [c \in RpcContexts |-> NoAioOp]
    /\ rpc_cur = [c \in RpcContexts |-> 0]
    /\ rpc_req = [r \in RpcRequests |-> "unsent"]

\* Server::spawn, the server thread: the workers are created, the listener
\* is started and a recv is issued on every context
RpcSpawn ==
    /\ rpc_running = "none"
    /\ rpc_running' = "running"
    /\ rpc_op' = [c \in RpcContexts |-> "recv"]
    /\ UNCHANGED <<rpc_state, rpc_cur, rpc_req>>
    /\ UNCHANGED nonRpcVars

\* a client sends a request
RpcRequest(r) ==
    /\ rpc_running # "stopped"
    /\ rpc_req[r] = "unsent"
    /\ \A q \in RpcRequests : q < r => rpc_req[q] # "unsent"
    /\ rpc_req' = [rpc_req EXCEPT ![r] = "pending"]
    /\ UNCHANGED <<rpc_running, rpc_state, rpc_op, rpc_cur>>
    /\ UNCHANGED nonRpcVars

\* nng completes the recv of a context with a request and calls the
\* callback, which starts to process it
RpcReceive(c, r) ==
    /\ rpc_running = "running"
    /\ rpc_op[c] = "recv"
    /\ rpc_req[r] = "pending"
    /\ rpc_state' = [rpc_state EXCEPT ![c] = processing(rpc_state[c]).state]
    /\ rpc_op' = [rpc_op EXCEPT ![c] = processing(rpc_state[c]).op]
    /\ rpc_cur' = [rpc_cur EXCEPT ![c] = r]
    /\ rpc_req' = [rpc_req EXCEPT ![r] = "received"]
    /\ UNCHANGED rpc_running
    /\ UNCHANGED nonRpcVars

\* nng completes the recv of a context without a request: with an error, or
\* with Ok and no message
RpcRecvFailed(c, result) ==
    /\ rpc_running = "running"
    /\ rpc_op[c] = "recv"
    /\ rpc_state' = [rpc_state EXCEPT ![c] = recv_without_message(result).state]
    /\ rpc_op' = [rpc_op EXCEPT ![c] = recv_without_message(result).op]
    /\ UNCHANGED <<rpc_running, rpc_cur, rpc_req>>
    /\ UNCHANGED nonRpcVars

\* process returns inside the callback, which issues the send of the reply
RpcProcessed(c, result) ==
    /\ rpc_running = "running"
    /\ rpc_cur[c] # 0
    /\ rpc_state[c] = "Recv"
    /\ rpc_state' = [rpc_state EXCEPT ![c] = replied(result).state]
    /\ rpc_op' = [rpc_op EXCEPT ![c] = replied(result).op]
    /\ IF result = "Ok"
       THEN UNCHANGED <<rpc_cur, rpc_req>>
       ELSE /\ rpc_cur' = [rpc_cur EXCEPT ![c] = 0]
            /\ rpc_req' = [rpc_req EXCEPT ![rpc_cur[c]] = "lost"]
    /\ UNCHANGED rpc_running
    /\ UNCHANGED nonRpcVars

\* nng completes the send of the reply and calls the callback
RpcSent(c, result) ==
    /\ rpc_running = "running"
    /\ rpc_op[c] = "send"
    /\ rpc_state[c] = "Send"
    /\ rpc_state' = [rpc_state EXCEPT ![c] = sent(result).state]
    /\ rpc_op' = [rpc_op EXCEPT ![c] = sent(result).op]
    /\ rpc_cur' = [rpc_cur EXCEPT ![c] = 0]
    /\ rpc_req' = [rpc_req EXCEPT ![rpc_cur[c]] =
                      IF result = "Ok" THEN "replied" ELSE "lost"]
    /\ UNCHANGED rpc_running
    /\ UNCHANGED nonRpcVars

\* Server::stop: the server thread returns and drops the workers and the
\* socket
RpcStop ==
    /\ rpc_running = "running"
    /\ rpc_running' = "stopped"
    /\ rpc_op' = [c \in RpcContexts |-> NoAioOp]
    /\ rpc_cur' = [c \in RpcContexts |-> 0]
    /\ rpc_req' = [r \in RpcRequests |->
                      IF rpc_req[r] = "received" THEN "lost" ELSE rpc_req[r]]
    /\ UNCHANGED rpc_state
    /\ UNCHANGED nonRpcVars

RpcNext ==
    \/ RpcSpawn
    \/ \E r \in RpcRequests : RpcRequest(r)
    \/ \E c \in RpcContexts, r \in RpcRequests : RpcReceive(c, r)
    \/ \E c \in RpcContexts, result \in {"NoMsg", "Err"} : RpcRecvFailed(c, result)
    \/ \E c \in RpcContexts, result \in AioResults : RpcProcessed(c, result)
    \/ \E c \in RpcContexts, result \in AioResults : RpcSent(c, result)
    \/ RpcStop

(***************************************************************************)
(* Part VI.  The connection metrics of the nng server of                   *)
(* oysterpack-trust-nng/src/reqrep/server.rs.                              *)
(*                                                                         *)
(* ACTIVE_CONN_COUNT, TOT_CONN_COUNT and TOT_CONN_INITIATE_COUNT are        *)
(* process-wide metric vectors labelled by ReqRepId.  spawn takes the      *)
(* metrics of its service's ReqRepId and installs a pipe_notify callback   *)
(* on its socket that updates them.  nng reports AddPre for every pipe,    *)
(* then AddPost if the pipe is added to the socket, and RemovePost when    *)
(* the pipe is gone.                                                       *)
(***************************************************************************)

\* number of servers that are spawned
MaxServers == 2
\* number of pipes of one server's socket
MaxPipes == 2
\* number of pipe events that are none of AddPre, AddPost, RemovePost
MaxOtherEvents == 1

MetricsServers == 1..MaxServers
Pipes == 1..MaxPipes

\* the metrics of one label: a gauge and two counters
ServerMetrics(active, tot, initiated) ==
    [active_conn_count |-> active,
     tot_conn_count |-> tot,
     tot_conn_initiate_count |-> initiated]

\* the pipe event that may follow the last event of a pipe
FollowingEvents(last) ==
    IF last = "none" THEN {"AddPre"}
    ELSE IF last = "AddPre" THEN {"AddPost", "RemovePost"}
    ELSE IF last = "AddPost" THEN {"RemovePost"}
    ELSE {}

\* the state of a pipe after an event
AfterEvent(last, event) ==
    IF event = "RemovePost"
    THEN IF last = "AddPost" THEN "Removed" ELSE "Rejected"
    ELSE event

\* the pipe_notify callback: the metrics after a pipe event
pipe_notify(m, event) ==
    IF event = "AddPost"
    THEN ServerMetrics(m.active_conn_count + 1, m.tot_conn_count + 1,
                       m.tot_conn_initiate_count)
    ELSE IF event = "RemovePost"
    THEN ServerMetrics(m.active_conn_count - 1, m.tot_conn_count,
                       m.tot_conn_initiate_count)
    ELSE IF event = "AddPre"
    THEN ServerMetrics(m.active_conn_count, m.tot_conn_count,
                       m.tot_conn_initiate_count + 1)
    ELSE m

\* the metrics of a label
MetricsOf(id) ==
    ServerMetrics(active_conn_count[id], tot_conn_count[id],
                  tot_conn_initiate_count[id])

\* the numbers of AddPre, AddPost and RemovePost events of a server
AddPreEvents(s) == Cardinality({p \in Pipes : pipes[s][p] # "none"})
AddPostEvents(s) ==
    Cardinality({p \in Pipes : pipes[s][p] \in {"AddPost", "Removed"}})
RemovePostEvents(s) ==
    Cardinality({p \in Pipes : pipes[s][p] \in {"Removed", "Rejected"}})

MetricsInit ==
    /\ metrics_label = [s \in MetricsServers |-> "none"]
    /\ pipes = [s \in MetricsServers |-> [p \in Pipes |-> "none"]]
    /\ other_events = 0
    /\ active_conn_count = [id \in ServerReqRepIds |-> 0]
    /\ tot_conn_count = [id \in ServerReqRepIds |-> 0]
    /\ tot_conn_initiate_count = [id \in ServerReqRepIds |-> 0]

\* spawn: ServerMetrics::new(reqrep_id) and the pipe_notify callback
MetricsSpawn(s, id) ==
    /\ metrics_label[s] = "none"
    /\ \A q \in MetricsServers : q < s => metrics_label[q] # "none"
    /\ metrics_label' = [metrics_label EXCEPT ![s] = id]
    /\ UNCHANGED <<pipes, other_events, active_conn_count, tot_conn_count,
                   tot_conn_initiate_count>>
    /\ UNCHANGED nonMetricsVars

\* nng calls the pipe_notify callback of a server's socket
PipeNotify(s, p, event) ==
    /\ metrics_label[s] # "none"
    /\ event \in FollowingEvents(pipes[s][p])
    /\ pipes' = [pipes EXCEPT ![s][p] = AfterEvent(pipes[s][p], event)]
    /\ LET m == pipe_notify(MetricsOf(metrics_label[s]), event) IN
        /\ active_conn_count' =
              [active_conn_count EXCEPT ![metrics_label[s]] = m.active_conn_count]
        /\ tot_conn_count' =
              [tot_conn_count EXCEPT ![metrics_label[s]] = m.tot_conn_count]
        /\ tot_conn_initiate_count' =
              [tot_conn_initiate_count EXCEPT ![metrics_label[s]] =
                  m.tot_conn_initiate_count]
    /\ UNCHANGED <<metrics_label, other_events>>
    /\ UNCHANGED nonMetricsVars

\* nng calls the pipe_notify callback with an event of another kind
PipeNotifyOther(s) ==
    /\ metrics_label[s] # "none"
    /\ other_events < MaxOtherEvents
    /\ other_events' = other_events + 1
    /\ LET m == pipe_notify(MetricsOf(metrics_label[s]), "Unknown") IN
        /\ active_conn_count' =
              [active_conn_count EXCEPT ![metrics_label[s]] = m.active_conn_count]
        /\ tot_conn_count' =
              [tot_conn_count EXCEPT ![metrics_label[s]] = m.tot_conn_count]
        /\ tot_conn_initiate_count' =
              [tot_conn_initiate_count EXCEPT ![metrics_label[s]] =
                  m.tot_conn_initiate_count]
    /\ UNCHANGED <<metrics_label, pipes>>
    /\ UNCHANGED nonMetricsVars

MetricsNext ==
    \/ \E s \in MetricsServers, id \in ServerReqRepIds : MetricsSpawn(s, id)
    \/ \E s \in MetricsServers, p \in Pipes :
          \E event \in {"AddPre", "AddPost", "RemovePost"} : PipeNotify(s, p, event)
    \/ \E s \in MetricsServers : PipeNotifyOther(s)

(***************************************************************************)
(* The specifications: the server lifecycle, one ReqRep channel, and       *)
(* several ReqRep services.                                                *)
(***************************************************************************)
(* Part VII.  Messages of oysterpack-core/src/message/mod.rs: envelopes,   *)
(* encodings, signed hashes and deadlines.                                 *)
(*                                                                         *)
(* The operations are functions of their arguments; the model applies them *)
(* to every argument within the bounds and keeps the last call of each.    *)
(* The primitives of sodiumoxide are modelled as ideal: a box opens with   *)
(* the key and nonce it was sealed with and with nothing else, a signed    *)
(* message verifies under the public key of the signer's pair and under no *)
(* other, and the hash has no collisions.                                  *)
(***************************************************************************)
\* number of key pairs (box_::gen_keypair, sign::gen_keypair)
MaxKeyPairs == 2
\* longest message, in bytes
MaxMsgLen == 2
\* number of byte values
MaxByte == 1
\* number of nonces that box_::gen_nonce may draw
MaxNonces == 2

KeyPairs == 1..MaxKeyPairs
Bytes == 0..MaxByte
Nonces == 1..MaxNonces

\* the byte strings of at most n bytes
ByteStrings(n) == UNION {[1..k -> Bytes] : k \in 0..n}

\* the public and the secret key of a pair
PublicKey(p) == [public |-> p]
SecretKey(p) == [secret |-> p]

\* Address(box_::PublicKey)
Address(p) == PublicKey(p)
Addresses == {Address(p) : p \in KeyPairs}

NoEnvelope == [envelope |-> "none"]
NoKey == [key |-> "none"]
\* a precomputed key with the public and the secret key it came from
KeyFrom(pk, sk, key) == [key |-> key, pk |-> pk, sk |-> sk]
NotOpened == [with |-> NoKey, ret |-> [result |-> "none"]]
Unaltered == "unaltered"

\* box_::precompute: the key shared by the pair of the public key and the
\* pair of the secret key, the same whichever side computes it
precompute(pk, sk) == [shared |-> {pk.public, sk.secret}]

precompute_sealing_key(address, sender_private_key) ==
    precompute(address, sender_private_key)

precompute_opening_key(address, recipient_private_key) ==
    precompute(address, recipient_private_key)

PrecomputedKeys ==
    {precompute(PublicKey(p), SecretKey(q)) : p \in KeyPairs, q \in KeyPairs}

\* box_::seal_precomputed: the authenticated ciphertext of m
seal_precomputed(m, nonce, key) == [plain |-> m, nonce |-> nonce, key |-> key]

\* a ciphertext that no seal produced
Forged(c) == [c EXCEPT !.key = NoKey]

\* box_::open_precomputed: Ok(m) for the ciphertext of m under this nonce and
\* key, Err(()) for anything else
open_precomputed(c, nonce, key) ==
    IF c.key = key /\ c.nonce = nonce
    THEN [ok |-> TRUE, msg |-> c.plain]
    ELSE [ok |-> FALSE]

OpenEnvelope(sender, recipient, msg) ==
    [envelope |-> "open", sender |-> sender, recipient |-> recipient, msg |-> msg]

SealedEnvelope(sender, recipient, nonce, msg) ==
    [envelope |-> "sealed", sender |-> sender, recipient |-> recipient,
     nonce |-> nonce, msg |-> msg]

\* OpenEnvelope::seal, with the nonce that gen_nonce drew
seal(e, nonce, key) ==
    SealedEnvelope(e.sender, e.recipient, nonce,
                   seal_precomputed(e.msg, nonce, key))

\* SealedEnvelope::open without the authentication of the box
open_unchecked(e, key) ==
    [result |-> "Ok",
     envelope |-> OpenEnvelope(e.sender, e.recipient, e.msg.plain)]

\* SealedEnvelope::open keeping the sender only
open_to_sender(e, key) ==
    LET r == open_precomputed(e.msg, e.nonce, key) IN
    IF r.ok
    THEN [result |-> "Ok", envelope |-> OpenEnvelope(e.sender, e.sender, r.msg)]
    ELSE [result |-> "SealedEnvelopeOpenFailed"]

\* SealedEnvelope::open
open(e, key) ==
    LET r == open_precomputed(e.msg, e.nonce, key) IN
    IF r.ok
    THEN [result |-> "Ok", envelope |-> OpenEnvelope(e.sender, e.recipient, r.msg)]
    ELSE [result |-> "SealedEnvelopeOpenFailed"]

\* EncodedMessage{sender, recipient, msg}
EncodedMessage(sender, recipient, msg) ==
    [sender |-> sender, recipient |-> recipient, msg |-> msg]

\* EncodedMessage::recipient
recipient(m) == m.sender

NoEncodedMessage == [encoded |-> "none"]

EnvelopeInit ==
    /\ open_envelope = NoEnvelope
    /\ sealing_key = NoKey
    /\ sealed_envelope = NoEnvelope
    /\ altered = Unaltered
    /\ opened = NotOpened
    /\ encoded_message = NoEncodedMessage

\* OpenEnvelope::new
OpenEnvelopeNew(from, to, msg) ==
    /\ open_envelope = NoEnvelope
    /\ open_envelope' = OpenEnvelope(from, to, msg)
    /\ sealing_key' = NoKey
    /\ sealed_envelope' = NoEnvelope
    /\ altered' = Unaltered
    /\ opened' = NotOpened
    /\ encoded_message' = NoEncodedMessage
    /\ UNCHANGED <<codec, signed, verified, deadline_call>>
    /\ UNCHANGED nonMessageVars

\* the sender seals the envelope with the key precomputed from a public key
\* and a secret key
Seal(pk, sk, nonce) ==
    /\ open_envelope # NoEnvelope
    /\ sealed_envelope = NoEnvelope
    /\ encoded_message = NoEncodedMessage
    /\ LET key == precompute_sealing_key(Address(pk), SecretKey(sk)) IN
        /\ sealing_key' = KeyFrom(pk, sk, key)
        /\ sealed_envelope' = seal(open_envelope, nonce, key)
    /\ UNCHANGED <<open_envelope, altered, opened, encoded_message, codec,
                   signed, verified, deadline_call>>
    /\ UNCHANGED nonMessageVars

\* the envelope is rebuilt on its way with SealedEnvelope::new, with another
\* nonce or with other message bytes
Alter(what, nonce) ==
    /\ sealed_envelope # NoEnvelope
    /\ altered = Unaltered
    /\ opened = NotOpened
    /\ altered' = what
    /\ sealed_envelope' =
          IF what = "nonce"
          THEN SealedEnvelope(sealed_envelope.sender, sealed_envelope.recipient,
                              nonce, sealed_envelope.msg)
          ELSE SealedEnvelope(sealed_envelope.sender, sealed_envelope.recipient,
                              sealed_envelope.nonce, Forged(sealed_envelope.msg))
    /\ what = "nonce" => nonce # sealed_envelope.nonce
    /\ UNCHANGED <<open_envelope, sealing_key, opened, encoded_message, codec,
                   signed, verified, deadline_call>>
    /\ UNCHANGED nonMessageVars

\* the recipient opens the envelope with the key precomputed from a public
\* key and a secret key
Open(pk, sk) ==
    /\ sealed_envelope # NoEnvelope
    /\ opened = NotOpened
    /\ LET key == precompute_opening_key(Address(pk), SecretKey(sk)) IN
          opened' = [with |-> KeyFrom(pk, sk, key),
                     ret |-> open(sealed_envelope, key)]
    /\ UNCHANGED <<open_envelope, sealing_key, sealed_envelope, altered,
                   encoded_message, codec, signed, verified, deadline_call>>
    /\ UNCHANGED nonMessageVars

\* Message::encoded_message, OpenEnvelope::encoded_message
EncodedMessageNew ==
    /\ open_envelope # NoEnvelope
    /\ sealed_envelope = NoEnvelope
    /\ encoded_message = NoEncodedMessage
    /\ encoded_message' = EncodedMessage(open_envelope.sender,
                                         open_envelope.recipient,
                                         open_envelope.msg)
    /\ UNCHANGED <<open_envelope, sealing_key, sealed_envelope, altered, opened,
                   codec, signed, verified, deadline_call>>
    /\ UNCHANGED nonMessageVars

EnvelopeNext ==
    \/ \E from \in Addresses, to \in Addresses, msg \in ByteStrings(MaxMsgLen) :
          OpenEnvelopeNew(from, to, msg)
    \/ \E pk \in KeyPairs, sk \in KeyPairs, nonce \in Nonces : Seal(pk, sk, nonce)
    \/ \E what \in {"nonce", "msg"}, nonce \in Nonces : Alter(what, nonce)
    \/ \E pk \in KeyPairs, sk \in KeyPairs : Open(pk, sk)
    \/ EncodedMessageNew

(***************************************************************************)
(* Encodings.  A value is a string, as in the tests' Foo(String); bytes    *)
(* are numbers.  Each serializer and each compressor is modelled by the    *)
(* frame of its format around the data, which its reader checks: bincode   *)
(* prefixes the length, CBOR a text string header, JSON quotes the text;   *)
(* deflate is one stored block, zlib and gzip wrap it in a header and a    *)
(* checksum, snappy prefixes the length, lz4 frames one block.             *)
(***************************************************************************)
Formats == {"Bincode", "CBOR", "JSON"}
Compressions == {"Deflate", "Zlib", "Gzip", "Snappy", "Lz4"}
None == "None"

\* Encoding::Bincode(Option<Compression>), CBOR(..), JSON(..)
Encoding(format, compression) == [format |-> format, compression |-> compression]
Encodings == {Encoding(f, c) : f \in Formats, c \in Compressions \cup {None}}

Values == ByteStrings(MaxMsgLen)

IoOk(data) == [ok |-> TRUE, data |-> data]
IoErr == [ok |-> FALSE]

RECURSIVE Checksum(_)
Checksum(data) ==
    IF data = <<>> THEN 1 ELSE (data[1] + 2 * Checksum(Tail(data))) % 251

\* the first n bytes and the bytes after them
Take(data, n) == SubSeq(data, 1, n)
Drop(data, n) == SubSeq(data, n + 1, Len(data))

GzipMagic == <<31, 139>>
Lz4Magic == <<4, 34, 77, 24>>

\* bincode::serialize, serde_cbor::to_vec, serde_json::to_vec
serialize(format, v) ==
    CASE format = "Bincode" -> <<Len(v)>> \o v
      [] format = "CBOR" -> <<96 + Len(v)>> \o v
      [] format = "JSON" ->
            <<34>> \o [i \in 1..Len(v) |-> 48 + v[i]] \o <<34>>

\* bincode::deserialize, serde_cbor::from_slice, serde_json::from_slice
deserialize(format, data) ==
    CASE format = "Bincode" ->
            IF Len(data) >= 1 /\ data[1] = Len(data) - 1
            THEN IoOk(Tail(data)) ELSE IoErr
      [] format = "CBOR" ->
            IF Len(data) >= 1 /\ data[1] = 96 + Len(data) - 1
            THEN IoOk(Tail(data)) ELSE IoErr
      [] format = "JSON" ->
            IF /\ Len(data) >= 2
               /\ data[1] = 34
               /\ data[Len(data)] = 34
               /\ \A i \in 2..(Len(data) - 1) : data[i] - 48 \in Bytes
            THEN IoOk([i \in 1..(Len(data) - 2) |-> data[i + 1] - 48])
            ELSE IoErr

deflate(data) == <<1, Len(data)>> \o data

inflate(data) ==
    IF /\ Len(data) >= 2
       /\ data[1] = 1
       /\ data[2] = Len(data) - 2
    THEN IoOk(Drop(data, 2))
    ELSE IoErr

\* Compression::compress
compress(compression, data) ==
    CASE compression = "Deflate" -> IoOk(deflate(data))
      [] compression = "Zlib" ->
            IoOk(<<120>> \o deflate(data) \o <<Checksum(data)>>)
      [] compression = "Gzip" ->
            IoOk(GzipMagic \o deflate(data) \o <<Checksum(data), Len(data)>>)
      [] compression = "Snappy" -> IoOk(<<Len(data)>> \o data)
      [] compression = "Lz4" ->
            IoOk(Lz4Magic \o <<Len(data)>> \o data \o <<0>>)

\* Compression::decompress
decompress(compression, data) ==
    CASE compression = "Deflate" -> inflate(data)
      [] compression = "Zlib" ->
            IF Len(data) >= 2 /\ data[1] = 120
            THEN LET r == inflate(SubSeq(data, 2, Len(data) - 1)) IN
                 IF r.ok /\ Checksum(r.data) = data[Len(data)] THEN r ELSE IoErr
            ELSE IoErr
      [] compression = "Gzip" ->
            IF Len(data) >= 4 /\ Take(data, 2) = GzipMagic
            THEN LET r == inflate(SubSeq(data, 3, Len(data) - 2)) IN
                 IF /\ r.ok
                    /\ Checksum(r.data) = data[Len(data) - 1]
                    /\ Len(r.data) = data[Len(data)]
                 THEN r ELSE IoErr
            ELSE IoErr
      [] compression = "Snappy" ->
            IF Len(data) >= 1 /\ data[1] = Len(data) - 1
            THEN IoOk(Tail(data)) ELSE IoErr
      [] compression = "Lz4" ->
            IF /\ Len(data) >= 6
               /\ Take(data, 4) = Lz4Magic
               /\ data[5] = Len(data) - 6
               /\ data[Len(data)] = 0
            THEN IoOk(SubSeq(data, 6, Len(data) - 1))
            ELSE IoErr

EncodeOk(data) == [result |-> "Ok", data |-> data]
SerializationError == [result |-> "SerializationError"]
DecodeOk(v) == [result |-> "Ok", value |-> v]
DeserializationError == [result |-> "DeserializationError"]

\* Encoding::encode
encode(E, v) ==
    LET data == serialize(E.format, v) IN
    IF E.compression # None
    THEN LET r == compress(E.compression, data) IN
         IF r.ok THEN EncodeOk(r.data) ELSE SerializationError
    ELSE EncodeOk(data)

\* Encoding::decode that takes the data as it is
decode_uncompressed(E, data) ==
    LET r == deserialize(E.format, data) IN
    IF r.ok THEN DecodeOk(r.data) ELSE DeserializationError

\* Encoding::decode
decode(E, data) ==
    IF E.compression # None
    THEN LET d == decompress(E.compression, data) IN
         IF d.ok
         THEN LET r == deserialize(E.format, d.data) IN
              IF r.ok THEN DecodeOk(r.data) ELSE DeserializationError
         ELSE DeserializationError
    ELSE LET r == deserialize(E.format, data) IN
         IF r.ok THEN DecodeOk(r.data) ELSE DeserializationError

NoCodec == [call |-> "none"]
NotDecoded == [result |-> "none"]

CodecInit == codec = NoCodec

\* Message::encode: the data is encoded as the metadata's encoding says
Encode(E, v) ==
    /\ codec' = [call |-> "encode", encoding |-> E, value |-> v,
                 encoded |-> encode(E, v), decoded |-> NotDecoded]
    /\ UNCHANGED <<open_envelope, sealing_key, sealed_envelope, altered, opened,
                   encoded_message, signed, verified, deadline_call>>
    /\ UNCHANGED nonMessageVars

\* Message::decode: the data is decoded as the metadata's encoding says
Decode ==
    /\ codec # NoCodec
    /\ codec.encoded.result = "Ok"
    /\ codec.decoded = NotDecoded
    /\ codec' = [codec EXCEPT !.call = "decode",
                              !.decoded = decode(codec.encoding, codec.encoded.data)]
    /\ UNCHANGED <<open_envelope, sealing_key, sealed_envelope, altered, opened,
                   encoded_message, signed, verified, deadline_call>>
    /\ UNCHANGED nonMessageVars

CodecNext ==
    \/ \E E \in Encodings, v \in Values : Encode(E, v)
    \/ Decode

(***************************************************************************)
(* Signed hashes.  A digest has DigestBytes bytes; the digest of a message *)
(* is its length and its bytes, padded, so that no two messages share one. *)
(***************************************************************************)
\* hash::DIGESTBYTES
DigestBytes == MaxMsgLen + 1

\* hash::hash
hash(m) == <<Len(m)>> \o m \o [i \in 1..(MaxMsgLen - Len(m)) |-> 0]

\* hash::Digest::from_slice
Digest_from_slice(bytes) ==
    IF Len(bytes) = DigestBytes THEN [some |-> TRUE, digest |-> bytes]
    ELSE [some |-> FALSE]

\* sign::sign: the signed message of the payload
sign_sign(payload, sk) == [payload |-> payload, signer |-> sk.secret]

\* sign::verify: the payload, when the signature is the one of the pair of pk
sign_verify(sm, pk) ==
    IF sm.signer = pk.public THEN [ok |-> TRUE, payload |-> sm.payload]
    ELSE [ok |-> FALSE]

\* SignedHash::sign
sign(digest, key) == sign_sign(digest, key)

\* SignedHash::verify comparing the digests first
verify_checksum_first(h, msg, key) ==
    IF hash(msg) # h.payload THEN "ChecksumFailed"
    ELSE IF ~sign_verify(h, key).ok THEN "InvalidSignature"
    ELSE "Ok"

\* SignedHash::verify
verify(h, msg, key) ==
    LET r == sign_verify(h, key) IN
    IF ~r.ok THEN "InvalidSignature"
    ELSE LET digest == Digest_from_slice(r.payload) IN
         IF digest.some
         THEN IF hash(msg) = digest.digest THEN "Ok" ELSE "ChecksumFailed"
         ELSE "InvalidDigestLength"

NotSigned == [of |-> "none"]
NotVerified == [ret |-> "none"]

SignedHashInit ==
    /\ signed = NotSigned
    /\ verified = NotVerified

\* SignedHash::sign(&hash::hash(m), sk)
Sign(m, sk) ==
    /\ signed = NotSigned
    /\ signed' = [of |-> "digest", msg |-> m, signer |-> sk,
                  hash |-> sign(hash(m), SecretKey(sk))]
    /\ verified' = NotVerified
    /\ UNCHANGED <<open_envelope, sealing_key, sealed_envelope, altered, opened,
                   encoded_message, codec, deadline_call>>
    /\ UNCHANGED nonMessageVars

\* SignedHash::from(bytes), of the message itself signed by sk
SignedHashFrom(m, sk) ==
    /\ signed = NotSigned
    /\ signed' = [of |-> "bytes", msg |-> m, signer |-> sk,
                  hash |-> sign_sign(m, SecretKey(sk))]
    /\ verified' = NotVerified
    /\ UNCHANGED <<open_envelope, sealing_key, sealed_envelope, altered, opened,
                   encoded_message, codec, deadline_call>>
    /\ UNCHANGED nonMessageVars

\* SignedHash::verify
Verify(m, pk) ==
    /\ signed # NotSigned
    /\ verified = NotVerified
    /\ verified' = [msg |-> m, key |-> pk,
                    ret |-> verify(signed.hash, m, PublicKey(pk))]
    /\ UNCHANGED <<open_envelope, sealing_key, sealed_envelope, altered, opened,
                   encoded_message, codec, signed, deadline_call>>
    /\ UNCHANGED nonMessageVars

SignedHashNext ==
    \/ \E m \in ByteStrings(MaxMsgLen), sk \in KeyPairs : Sign(m, sk)
    \/ \E m \in ByteStrings(MaxMsgLen), sk \in KeyPairs : SignedHashFrom(m, sk)
    \/ \E m \in ByteStrings(MaxMsgLen), pk \in KeyPairs : Verify(m, pk)

(***************************************************************************)
(* Deadlines.  The milliseconds of a Deadline are an unsigned integer of   *)
(* MillisBits bits (64 in the code) and a chrono::Duration counts signed   *)
(* milliseconds of the same width; a DateTime lies in 0..MaxTime, which is *)
(* narrower than the milliseconds, as chrono's range of dates is.          *)
(***************************************************************************)
\* width of the milliseconds of a Deadline
MillisBits == 3
\* the last instant a DateTime can hold
MaxTime == 3

Millis == 0..(2^MillisBits - 1)
Times == 0..MaxTime

\* millis as i64
as_i64(millis) ==
    IF millis >= 2^(MillisBits - 1) THEN millis - 2^MillisBits ELSE millis

\* DateTime::checked_add_signed
checked_add_signed(t, d) ==
    IF t + d \in Times THEN [some |-> TRUE, time |-> t + d] ELSE [some |-> FALSE]

ProcessingTimeoutMillis(millis) == [deadline |-> "ProcessingTimeoutMillis", millis |-> millis]
MessageTimeoutMillis(millis) == [deadline |-> "MessageTimeoutMillis", millis |-> millis]
Deadlines ==
    {ProcessingTimeoutMillis(d) : d \in Millis} \cup {MessageTimeoutMillis(d) : d \in Millis}

\* Deadline::duration, with the instant that Utc::now() returns
duration(self, starting_time, now) ==
    IF self.deadline = "ProcessingTimeoutMillis"
    THEN as_i64(self.millis)
    ELSE IF starting_time >= now THEN 0
         ELSE LET deadline == checked_add_signed(starting_time, as_i64(self.millis)) IN
              IF deadline.some
              THEN IF now >= deadline.time THEN 0 ELSE deadline.time - now
              ELSE 0

NoDeadlineCall == [call |-> "none"]

DeadlineInit == deadline_call = NoDeadlineCall

Duration(self, starting_time, now) ==
    /\ deadline_call' = [call |-> "duration", self |-> self,
                         starting_time |-> starting_time, now |-> now,
                         ret |-> duration(self, starting_time, now)]
    /\ UNCHANGED <<open_envelope, sealing_key, sealed_envelope, altered, opened,
                   encoded_message, codec, signed, verified>>
    /\ UNCHANGED nonMessageVars

DeadlineNext ==
    \E self \in Deadlines, starting_time \in Times, now \in Times :
        Duration(self, starting_time, now)

MessageInit ==
    /\ EnvelopeInit
    /\ CodecInit
    /\ SignedHashInit
    /\ DeadlineInit

(***************************************************************************)
(* Part VIII.  The AIO workers of the nng server,                          *)
(* oysterpack-trust-nng/src/reqrep/server.rs, create_workers.              *)
(*                                                                         *)
(* Each worker owns an AIO context and its Aio, whose callback sends an    *)
(* event on the worker's aio_rx channel.  The worker task waits for the    *)
(* start signal of the supervisor, issues a recv and then handles one      *)
(* event at a time; while it awaits the reply of the ReqRep service it     *)
(* takes no event.  What nng answers when an operation is issued and when  *)
(* it completes is an input, and so is what the ReqRep service replies.    *)
(***************************************************************************)
\* number of worker tasks, the listener's parallelism
MaxWorkers == 1
\* number of requests that clients send
MaxWorkerRequests == 2

Workers == 1..MaxWorkers
WorkerRequests == 1..MaxWorkerRequests
NoRequest == 0
NoOp == "none"
IssueResults == {"Ok", "Err"}

\* an AIO context as its worker sees it: the AioState, the operation
\* outstanding on the Aio and the calls made while handling the event
Context(state, aio, calls) == [state |-> state, aio |-> aio, calls |-> calls]

\* aio.cancel(): aborts the outstanding operation, if there is one
cancel(c) ==
    Context(c.state, IF c.aio = NoOp THEN NoOp ELSE "canceled",
            Append(c.calls, "cancel"))

\* the recv closure: ctx.recv(&aio); a failure is logged
recv(c, issued) ==
    Context("Recv", IF issued = "Ok" THEN "recv" ELSE c.aio,
            Append(c.calls, "recv"))

\* the send closure: ctx.send(&aio, msg)
send_closure(c, issued, reissued) ==
    IF issued = "Ok"
    THEN Context("Send", "send", Append(c.calls, "send"))
    ELSE recv(cancel(Context(c.state, c.aio, Append(c.calls, "send"))), reissued)

reqrep_send_recv_failed(c, reissued) == recv(cancel(c), reissued)

no_msg_available(c, reissued) == recv(cancel(c), reissued)

\* handle_aio_error that takes every error for Closed
handle_aio_error_closing(c, err, reissued) == Context("Closed", c.aio, c.calls)

\* handle_aio_error that takes Closed for any other error
handle_aio_error_rearming(c, err, reissued) == recv(cancel(c), reissued)

handle_aio_error(c, err, reissued) ==
    IF err = "Closed"
    THEN Context("Closed", c.aio, c.calls)
    ELSE recv(cancel(c), reissued)

\* the Send arm of the event loop
on_send(c, result, reissued) ==
    IF result = "Ok" THEN recv(c, reissued)
    ELSE handle_aio_error(c, result, reissued)

\* the Recv arm of the event loop taking the request while the reply of the
\* request before is on its way
on_recv_pipelined(c, result, has_msg, reissued) ==
    IF result = "Ok"
    THEN recv(c, reissued)
    ELSE handle_aio_error(c, result, reissued)

\* the Recv arm of the event loop, but for the await of send_recv
on_recv(c, result, has_msg, reissued) ==
    IF result = "Ok"
    THEN IF has_msg THEN c ELSE no_msg_available(c, reissued)
    ELSE handle_aio_error(c, result, reissued)

RequestAt(status, w) == [status |-> status, worker |-> w]
NoAioResult == [result |-> "none", msg |-> NoRequest]
AioResult(result, r) == [result |-> result, msg |-> r]
\* what a worker handled last: its state then, the result it found, whether
\* a message came with it, and the calls it made
WorkerHandled(state, result, has_msg, calls) ==
    [state |-> state, result |-> result, has_msg |-> has_msg, calls |-> calls]
NoEvent == WorkerHandled("Recv", "none", FALSE, <<>>)

\* the supervisor task before it runs: the listener is started, the handle
\* is not yet in SERVER_HANDLES
NoSupervisor ==
    [pc |-> "init", step |-> 0, listener |-> "open", registered |-> "none"]

WorkerInit ==
    /\ wsup = NoSupervisor
    /\ wsocket = "init"
    /\ wpc = [w \in Workers |-> "waiting"]
    /\ wstate = [w \in Workers |-> "Recv"]
    /\ waio = [w \in Workers |-> NoOp]
    /\ aio_rx = [w \in Workers |-> 0]
    /\ aio_result = [w \in Workers |-> NoAioResult]
    /\ wreq = [r \in WorkerRequests |-> RequestAt("unsent", 0)]
    /\ wlog = [w \in Workers |-> NoEvent]
    /\ wcur = [w \in Workers |-> NoRequest]

\* the worker's context after a step
SetContext(w, c, result, has_msg) ==
    /\ wstate' = [wstate EXCEPT ![w] = c.state]
    /\ waio' = [waio EXCEPT ![w] = c.aio]
    /\ wlog' = [wlog EXCEPT ![w] = WorkerHandled(wstate[w], result, has_msg, c.calls)]

\* start_workers: the supervisor sends every worker its start signal
SupervisorStart ==
    /\ wsocket = "init"
    /\ wsocket' = "open"
    /\ wsup' = [wsup EXCEPT !.pc = "running"]
    /\ UNCHANGED <<wpc, wstate, waio, aio_rx, aio_result, wreq, wlog, wcur>>
    /\ UNCHANGED nonWorkerVars

\* spawn, after start_workers: the handle is inserted into SERVER_HANDLES
SpawnInsertHandle ==
    /\ wsup.registered = "none"
    /\ wsup' = [wsup EXCEPT !.registered = "registered"]
    /\ UNCHANGED <<wsocket, wpc, wstate, waio, aio_rx, aio_result, wreq, wlog, wcur>>
    /\ UNCHANGED nonWorkerVars

\* the supervisor takes Stop, which a handle that spawn returned or the
\* registry lent has sent, and leaves its command loop
SupervisorBreak ==
    /\ wsup.pc = "running"
    /\ wsup.registered = "registered"
    /\ wsup' = [wsup EXCEPT !.pc = "stopping"]
    /\ UNCHANGED <<wsocket, wpc, wstate, waio, aio_rx, aio_result, wreq, wlog, wcur>>
    /\ UNCHANGED nonWorkerVars

\* a shutdown that removes the registry entry before it closes anything
ShutdownRemovingFirst == <<"remove", "listener.close", "socket.close">>

\* what the supervisor does after its loop, in the order of the code
Shutdown == <<"listener.close", "socket.close", "remove">>

\* the supervisor makes the next step of its shutdown
SupervisorClose ==
    /\ wsup.pc = "stopping"
    /\ wsup.step < Len(Shutdown)
    /\ LET what == Shutdown[wsup.step + 1]
       IN /\ wsup' = [wsup EXCEPT
                        !.step = @ + 1,
                        !.listener = IF what = "listener.close" THEN "closed" ELSE @,
                        !.registered = IF what = "remove" THEN "removed" ELSE @]
          /\ wsocket' = IF what = "socket.close" THEN "closed" ELSE wsocket
    /\ UNCHANGED <<wpc, wstate, waio, aio_rx, aio_result, wreq, wlog, wcur>>
    /\ UNCHANGED nonWorkerVars

\* the supervisor's async block returns: its join handle resolves
SupervisorDone ==
    /\ wsup.pc = "stopping"
    /\ wsup.step = Len(Shutdown)
    /\ wsup' = [wsup EXCEPT !.pc = "done"]
    /\ UNCHANGED <<wsocket, wpc, wstate, waio, aio_rx, aio_result, wreq, wlog, wcur>>
    /\ UNCHANGED nonWorkerVars

\* the worker takes its start signal and starts listening
WorkerStart(w, issued) ==
    /\ wpc[w] = "waiting"
    /\ wsocket # "init"
    /\ wpc' = [wpc EXCEPT ![w] = "loop"]
    /\ SetContext(w, recv(Context("Recv", waio[w], <<>>), issued), "start", FALSE)
    /\ UNCHANGED <<wsup, wsocket, aio_rx, aio_result, wreq, wcur>>
    /\ UNCHANGED nonWorkerVars

\* the operation of the worker's Aio completes and nng runs the callback
Completed(w, result, r) ==
    /\ waio' = [waio EXCEPT ![w] = NoOp]
    /\ aio_result' = [aio_result EXCEPT ![w] = AioResult(result, r)]
    /\ aio_rx' = [aio_rx EXCEPT ![w] = @ + 1]

\* a request of a client arrives at a context that has a recv outstanding
NngReceived(w, r) ==
    /\ wsocket = "open"
    /\ waio[w] = "recv"
    /\ wreq[r].status = "unsent"
    /\ wreq' = [wreq EXCEPT ![r] = RequestAt("received", w)]
    /\ Completed(w, "Ok", r)
    /\ UNCHANGED <<wsup, wsocket, wpc, wstate, wlog, wcur>>
    /\ UNCHANGED nonWorkerVars

\* the recv completes with no message or with an error, and so does an
\* operation that was aborted
NngRecvFailed(w, result) ==
    /\ wsocket = "open"
    /\ waio[w] \in {"recv", "canceled"}
    /\ waio[w] = "canceled" => result = "Err"
    /\ Completed(w, result, NoRequest)
    /\ UNCHANGED <<wsup, wsocket, wpc, wstate, wreq, wlog, wcur>>
    /\ UNCHANGED nonWorkerVars

\* the send of the reply completes
NngSent(w, result) ==
    /\ wsocket = "open"
    /\ waio[w] = "send"
    /\ wreq' = [wreq EXCEPT ![wcur[w]] =
                  RequestAt(IF result = "Ok" THEN "replied" ELSE "failed", w)]
    /\ Completed(w, result, NoRequest)
    /\ UNCHANGED <<wsup, wsocket, wpc, wstate, wlog, wcur>>
    /\ UNCHANGED nonWorkerVars

\* the socket is closed: the operation outstanding completes with Closed
NngClosed(w) ==
    /\ wsocket = "closed"
    /\ waio[w] # NoOp
    /\ wreq' = IF waio[w] = "send"
               THEN [wreq EXCEPT ![wcur[w]] = RequestAt("failed", w)]
               ELSE wreq
    /\ Completed(w, "Closed", NoRequest)
    /\ UNCHANGED <<wsup, wsocket, wpc, wstate, wlog, wcur>>
    /\ UNCHANGED nonWorkerVars

\* the worker takes an event from aio_rx in state Recv
WorkerOnRecv(w, reissued) ==
    /\ wpc[w] = "loop"
    /\ aio_rx[w] > 0
    /\ wstate[w] = "Recv"
    /\ aio_rx' = [aio_rx EXCEPT ![w] = @ - 1]
    /\ LET has_msg == aio_result[w].msg # NoRequest
           c == on_recv(Context(wstate[w], waio[w], <<>>), aio_result[w].result,
                        has_msg, reissued)
       IN /\ SetContext(w, c, aio_result[w].result, has_msg)
          /\ wpc' = [wpc EXCEPT ![w] =
                        IF c.state = "Closed" THEN "done"
                        ELSE IF aio_result[w].result = "Ok" /\ has_msg
                        THEN "send_recv" ELSE "loop"]
          /\ wcur' = [wcur EXCEPT ![w] =
                        IF aio_result[w].result = "Ok" /\ has_msg
                        THEN aio_result[w].msg ELSE @]
    /\ UNCHANGED <<wsup, wsocket, aio_result, wreq>>
    /\ UNCHANGED nonWorkerVars

\* service_client.send_recv resolves: the reply is sent, or the failure
\* is logged
WorkerReply(w, rep, issued, reissued) ==
    /\ wpc[w] = "send_recv"
    /\ wpc' = [wpc EXCEPT ![w] = "loop"]
    /\ LET c0 == Context(wstate[w], waio[w], <<>>)
           c == IF rep = "Ok" THEN send_closure(c0, issued, reissued)
                ELSE reqrep_send_recv_failed(c0, reissued)
       IN /\ SetContext(w, c, IF rep = "Ok" THEN "reply" ELSE "reply_failed",
                         TRUE)
          /\ wreq' = IF c.state = "Send" THEN wreq
                     ELSE [wreq EXCEPT ![wcur[w]] = RequestAt("failed", w)]
    /\ UNCHANGED <<wsup, wsocket, aio_rx, aio_result, wcur>>
    /\ UNCHANGED nonWorkerVars

\* the worker takes an event from aio_rx in state Send
WorkerOnSend(w, reissued) ==
    /\ wpc[w] = "loop"
    /\ aio_rx[w] > 0
    /\ wstate[w] = "Send"
    /\ aio_rx' = [aio_rx EXCEPT ![w] = @ - 1]
    /\ LET c == on_send(Context(wstate[w], waio[w], <<>>), aio_result[w].result,
                        reissued)
       IN /\ SetContext(w, c, aio_result[w].result, FALSE)
          /\ wpc' = [wpc EXCEPT ![w] = IF c.state = "Closed" THEN "done" ELSE "loop"]
    /\ wcur' = [wcur EXCEPT ![w] = NoRequest]
    /\ UNCHANGED <<wsup, wsocket, aio_result, wreq>>
    /\ UNCHANGED nonWorkerVars

WorkerStep(w) ==
    \/ \E issued \in IssueResults : WorkerStart(w, issued)
    \/ \E reissued \in IssueResults : WorkerOnRecv(w, reissued)
    \/ \E reissued \in IssueResults : WorkerOnSend(w, reissued)

WorkerNext ==
    \/ SupervisorStart
    \/ SpawnInsertHandle
    \/ SupervisorBreak
    \/ SupervisorClose
    \/ SupervisorDone
    \/ \E w \in Workers : WorkerStep(w)
    \/ \E w \in Workers, rep \in {"Ok", "Err"} :
          \E issued \in IssueResults, reissued \in IssueResults :
              WorkerReply(w, rep, issued, reissued)
    \/ \E w \in Workers, r \in WorkerRequests : NngReceived(w, r)
    \/ \E w \in Workers, result \in {"Ok", "Err"} : NngRecvFailed(w, result)
    \/ \E w \in Workers, result \in {"Ok", "Err"} : NngSent(w, result)
    \/ \E w \in Workers : NngClosed(w)

(***************************************************************************)

Init ==
    /\ ServerInit
    /\ ReqRepInit
    /\ RegistryInit
    /\ NngClientInit
    /\ RpcInit
    /\ MetricsInit
    /\ MessageInit
    /\ WorkerInit

ServerSpec == Init /\ [][ServerNext]_vars

\* the ping calls that have not returned: their Ping is queued, or their
\* one-shot has resolved and the caller has not yet run
PingsWaiting ==
    Cardinality({i \in QueuedPings : cmdq[i].op = "ping"})
    + BagCardinality([o \in {x \in BagToSet(ops) : x.op = "ping"} |-> ops[o]])

\* the executor runs every task that can make a step (the supervisor, the
\* stop tasks, the tasks of ping, get and await_shutdown), and drops a task
\* that is finished
ServerFairness ==
    /\ WF_vars(SpawnRegister)
    /\ WF_vars(StopTaskRun)
    /\ WF_vars(SupervisorPing \/ SupervisorStop \/ SupervisorShutdown
                  \/ SupervisorReturn \/ SupervisorDropped)
    /\ WF_vars(\E o \in BagToSet(ops) : PingReturn(o))
    /\ WF_vars(\E o \in BagToSet(ops) : GetSend(o))
    /\ WF_vars(\E o \in BagToSet(ops) : GetReturn(o))
    /\ WF_vars(\E o \in BagToSet(ops) : AwaitReturn(o))

ServerFairSpec == Init /\ [][ServerNext]_vars /\ ServerFairness

\* as ServerFairSpec, with the callers pinging one at a time, so that the
\* ping that waits is the same ping until it returns
ServerPingFairSpec ==
    Init /\ [][ServerNext /\ PingsWaiting' <= 1]_vars /\ ServerFairness

ReqRepSpec == Init /\ [][ReqRepNext]_vars

ServicesSpec == Init /\ [][ServicesNext]_vars

RegistrySpec == Init /\ [][RegistryNext]_vars

ClientSpec == Init /\ [][ClientNext]_vars

\* as ClientSpec, and the service task may be dropped while it borrows
ClientBorrowSpec == Init /\ [][ClientNext \/ ProcessDropped]_vars

EchoSpec == Init /\ [][EchoNext]_vars

RpcSpec == Init /\ [][RpcNext]_vars

MetricsSpec == Init /\ [][MetricsNext]_vars

EnvelopeSpec == Init /\ [][EnvelopeNext]_vars

CodecSpec == Init /\ [][CodecNext]_vars

SignedHashSpec == Init /\ [][SignedHashNext]_vars

DeadlineSpec == Init /\ [][DeadlineNext]_vars

WorkerSpec == Init /\ [][WorkerNext]_vars

\* the executor runs a worker task that can take a step, the ReqRep service
\* answers the request a worker awaits, and nng completes the operations
\* outstanding on a closed socket
WorkerFairness ==
    \A w \in Workers :
        /\ WF_vars(WorkerStep(w))
        /\ WF_vars(\E rep \in {"Ok", "Err"}, issued \in IssueResults,
                       reissued \in IssueResults :
                          WorkerReply(w, rep, issued, reissued))
        /\ WF_vars(NngClosed(w))
WorkerFairSpec == Init /\ [][WorkerNext]_vars /\ WorkerFairness

\* the executor keeps polling every task that can make a step, and the echo
\* server answers every request
EchoFairSpec ==
    /\ EchoSpec
    /\ WF_vars(ServiceNext \/ ProcessBorrow \/ ProcessSend \/ ProcessReply
                  \/ ServiceExit)
    /\ WF_vars(BrokerNext \/ BrokerLend \/ BrokerDrain \/ BrokerExit)
    /\ \A c \in AioContexts :
          WF_vars(AioSend(c, "Ok") \/ AioSent(c, "Ok", "Ok")
                    \/ AioReceived(c, "Ok") \/ AioReturn(c) \/ AioExit(c))

(***************************************************************************)
(* Properties of the server lifecycle.                                     *)
(***************************************************************************)

\* the number of held handles whose server_command_channel is Some / None
HandlesWith(c) ==
    BagCardinality([hd \in {x \in Held : x.chan = c} |-> handles[hd]])

\* C1: once an await_shutdown on the server has returned (which takes a
\* processed Stop, hence a stop_async call), every ping, and every get, that
\* begins afterwards returns false / None, whatever handle it is called on,
\* and the server's id is in no view of the registry: not in the map, not in
\* ids(), not in get_by_reqrep_id() of any ReqRepId.
C1_StoppedServerIsGone ==
    /\ (lastRet.op \in {"ping", "get"} /\ lastRet.after) => ~lastRet.val
    /\ awaited =>
        /\ ServerId \notin registry
        /\ ids = {}
        /\ \A rid \in ServerReqRepIds : get_by_reqrep_id(rid) = {}

\* a ping on a handle that still has its command channel (a clone taken from
\* the registry before the stop) returns false after await_shutdown returned
C1_Witness ==
    /\ lastRet.op = "ping"
    /\ lastRet.after
    /\ lastRet.chan
    /\ ~lastRet.val
    /\ awaited
    /\ ServerId \notin registry

\* C2: from the return of spawn until the supervisor processes a Stop, the
\* server is registered under its id, whatever callers do with their handles:
\* every get(id) that returns in that interval returns Some(handle), and the
\* handle it returns answers ping with true.
C2_RunningServerIsRegistered ==
    /\ pc = "running" =>
        /\ ServerId \in registry
        /\ <<ServerId, srvReqRep>> \in ids
        /\ ServerId \in get_by_reqrep_id(srvReqRep)
        /\ rxAlive
    /\ (lastRet.op = "get" /\ lastRet.running) => lastRet.val
    /\ (lastRet.op = "ping" /\ lastRet.running /\ lastRet.chan) => lastRet.val

\* get(id) returns Some while the callers hold no other handle of the server
C2_Witness ==
    /\ pc = "running"
    /\ lastRet.op = "get"
    /\ lastRet.running
    /\ lastRet.val
    /\ BagCardinality(handles) = 1

C4_StopSignalled ==
    \A hd \in Held : stop_signalled(hd) <=> hd.first # "none"

\* handles of both kinds are held, after the Stop has been processed
C4_Witness ==
    /\ pc = "dropped"
    /\ \E hd \in Held : stop_signalled(hd) /\ hd.first = "Ok(true)"
    /\ \E hd \in Held : ~stop_signalled(hd) /\ hd.first = "none"

\* C5: ping returns true if and only if the supervisor dequeued the Ping and
\* replied on its one-shot; in particular it returns true on a handle with
\* its command channel while the supervisor is in its command loop, and false
\* when the Ping could not be sent (no channel, or the receiver is gone) and
\* when the reply sender was dropped unanswered.
C5_PingTrueIffReplied ==
    lastRet.op = "ping" =>
        /\ lastRet.val <=> lastRet.reply = "sent"
        /\ (lastRet.chan /\ lastRet.running) => lastRet.val
        /\ ~lastRet.chan => ~lastRet.val
        /\ lastRet.reply \in {"none", "canceled"} => ~lastRet.val

\* a ping whose reply sender was dropped unanswered has returned
C5_Witness ==
    /\ lastRet.op = "ping"
    /\ lastRet.reply = "canceled"
    /\ ~lastRet.val

(***************************************************************************)
(* Liveness of the server's handle operations.                             *)
(***************************************************************************)
\* C38: a ping that is waiting, for the supervisor to take its Ping or for
\* its one-shot, returns in the end, whatever stop_async calls and whatever
\* part of the supervisor's shutdown it is interleaved with.
C38_PingReturns ==
    (PingsWaiting > 0) ~> (PingsWaiting = 0)

\* a ping whose Ping was still queued when the supervisor task was dropped
\* has returned false
C38_Witness ==
    /\ pc = "dropped"
    /\ lastRet.op = "ping"
    /\ lastRet.chan
    /\ lastRet.reply = "canceled"
    /\ ~lastRet.val
    /\ PingsWaiting = 0

\* the supervisor has gone through its shutdown
ServerShutDown == pc \in {"unregistered", "done", "dropped"}

\* C39: with stop_async called on several clones of a handle, in any
\* interleaving, the server shuts down once.  The supervisor takes one Stop
\* and leaves its loop for good, closing listener and socket and removing
\* the registry entry once; the Stops of the other clones are never taken:
\* they are dropped with the receiver, or fail to send.  After a stop_async
\* that spawned a stop task the server shuts down and its registry entry is
\* gone in the end, and when no more stop tasks are spawned none is left.
C39_StopsShutDownOnce ==
    /\ [][/\ pc' = "stopping" =>
                pc = "stopping" \/ (pc = "running" /\ Head(cmdq) = Stop)
          /\ (pc = "stopping" /\ pc' # pc) =>
                (pc' = "unregistered" /\ registry' = Removed)
          /\ pc \in {"stopping", "unregistered", "done", "dropped"} =>
                pc' \notin {"none", "starting", "running"}
          /\ ServerShutDown => pc' # "stopping"
          /\ Cardinality(QueuedStops)' < Cardinality(QueuedStops) =>
                \/ pc = "running" /\ pc' = "stopping"
                   /\ Cardinality(QueuedStops)' = Cardinality(QueuedStops) - 1
                \/ pc = "done" /\ pc' = "dropped"]_vars
    /\ (stopTasks > 0) ~> (ServerShutDown /\ ServerId \notin registry)
    /\ (<>[][stopTasks' <= stopTasks]_vars) => <>[](stopTasks = 0)

\* stop_async has returned Ok(true) on two clones, both stop tasks have
\* ended and the server is shut down
C39_Witness ==
    /\ pc = "dropped"
    /\ stopTasks = 0
    /\ ServerId \notin registry
    /\ \E hd \in Held : hd.first = "Ok(true)" /\ handles[hd] >= 2

(***************************************************************************)
(* Properties of a ReqRep channel.                                         *)
(***************************************************************************)

\* the send calls whose message the backend of channel i has processed
Processed(i) ==
    {k \in Calls : \E n \in 1..Len(procLog[i]) : procLog[i][n] = MessageId(k)}

\* C6: a reply reaches the ReplyReceiver that the send call of its request
\* returned, and no other: the one-shot that holds (or has handed over) a
\* reply got it exactly once, from the message that carries the MessageId the
\* ReplyReceiver reports, and the reply is the processor's reply to the
\* request of that send call; MessageIds of distinct send calls differ.
C6_ReplyCorrelation ==
    /\ \A k \in Calls :
        /\ oneshot[k].n <= 1
        /\ oneshot[k].st \in {"sent", "received"} =>
            /\ oneshot[k].n = 1
            /\ oneshot[k].from = oneshot[k].msg_id
            /\ oneshot[k].val = process(oneshot[k].req)
        /\ oneshot[k].st \notin {"sent", "received"} => oneshot[k].n = 0
    /\ \A k, l \in Calls :
        (k # l /\ oneshot[k].st # "none" /\ oneshot[l].st # "none")
            => oneshot[k].msg_id # oneshot[l].msg_id
    /\ (sendRet.op = "send" /\ sendRet.result = "Ok") =>
        oneshot[sendRet.receiver.receiver].msg_id = sendRet.receiver.msg_id

\* with two handles, the reply of a later request has been received while
\* the reply of an earlier, different request waits in its own one-shot
C6_Witness ==
    \E i \in Instances, k, l \in Calls :
        /\ l < k
        /\ senders[i] = 2
        /\ oneshot[k].inst = i /\ oneshot[l].inst = i
        /\ oneshot[k].st = "received"
        /\ oneshot[l].st = "sent"
        /\ oneshot[k].req # oneshot[l].req

\* C7: the backend processes the requests of its channel one at a time, in
\* the order they entered the channel: what it has processed is a prefix of
\* what was enqueued, and what waits in the channel is what follows.
C7_ProcessedInEnqueueOrder ==
    \A i \in Instances :
        /\ Len(procLog[i]) <= Len(enqLog[i])
        /\ procLog[i] = SubSeq(enqLog[i], 1, Len(procLog[i]))
        /\ ReceiverAlive(i) =>
            [n \in 1..Len(queue[i]) |-> queue[i][n].msg_id]
                = SubSeq(enqLog[i], Len(procLog[i]) + 1, Len(enqLog[i]))

\* a backend that has processed a request has two more waiting
C7_Witness ==
    \E i \in Instances : Len(procLog[i]) >= 1 /\ Len(queue[i]) >= 2

\* C8: send returns ChannelSendError::Disconnected exactly when the request
\* receiver of its channel is gone, and then no reply one-shot is left
\* behind; otherwise it returns Ok and the reply is pending.
C8_SendDisconnectedIffBackendGone ==
    sendRet.op = "send" =>
        /\ sendRet.result \in {"Ok", "Disconnected"}
        /\ sendRet.result = "Disconnected" <=> ~ReceiverAlive(sendRet.inst)
        /\ sendRet.result = "Disconnected" => oneshot[sends].st = "none"
        /\ sendRet.result = "Ok" => oneshot[sends].st = "pending"

\* a send on a handle whose backend task has ended
C8_Witness ==
    /\ sendRet.op = "send"
    /\ sendRet.result = "Disconnected"
    /\ bpc[sendRet.inst] = "exited"
    /\ senders[sendRet.inst] > 0

\* C9: the reply to a request whose ReplyReceiver was closed or dropped fails
\* with Disconnected, which the backend only logs: the step delivers nothing,
\* takes just that message from the channel and leaves the backend in its
\* loop, where it replies to the requests that follow as to any other.
C9_FailedReplyLeavesBackendRunning ==
    /\ [][\A i \in Instances :
            Len(procLog'[i]) > Len(procLog[i]) =>
                LET k == Head(queue[i]).rep_sender
                IN /\ warned'[i] > warned[i] <=> oneshot[k].st = "closed"
                   /\ oneshot[k].st = "closed" =>
                        /\ reply(oneshot[k].st) = "Disconnected"
                        /\ oneshot' = oneshot
                        /\ bpc'[i] = "serving"
                        /\ queue'[i] = Tail(queue[i])
                        /\ gauge' = gauge
                   /\ oneshot[k].st = "pending" =>
                        /\ oneshot'[k].st = "sent"
                        /\ oneshot'[k].val = process(oneshot[k].req)]_vars
    /\ [](\A i \in Instances : \A k \in Processed(i) :
            oneshot[k].st = "closed" => oneshot[k].n = 0)

\* after a failed reply the backend has replied to a later request
C9_Witness ==
    \E i \in Instances, c, k \in Calls :
        /\ c < k
        /\ c \in Processed(i) /\ k \in Processed(i)
        /\ warned[i] = 1
        /\ oneshot[c].st = "closed"
        /\ oneshot[k].st = "sent"
        /\ bpc[i] = "serving"

(***************************************************************************)
(* Properties of the service instance gauge.                               *)
(***************************************************************************)

\* the services started with ReqRepId id
Started(id) == {i \in Instances : kind[i] = "service" /\ reqrep_id[i] = id}

Unsettled(i) ==
    \/ bpc[i] = "spawned"
    \/ bpc[i] = "serving" /\ senders[i] = 0

BackendsOf(id) == {b \in Backends : backend_id[b] = id}

\* C12: register_client is get-or-create per ReqRepId.  A backend is
\* created for an id only when the id is not registered, so the backends
\* ever created for an id are the registered one, if any, and one for every
\* entry that unregister_client removed; whichever way concurrent calls
\* interleave, each call that returns Ok returns a handle of the backend
\* that is registered under its id when it returns.
C12_RegisterClientGetOrCreate ==
    /\ \A id \in ClientIds :
          Cardinality(BackendsOf(id))
              = unregistered[id] + (IF CLIENTS[id] # NoClient THEN 1 ELSE 0)
    /\ (clientRet.op = "register_client" /\ clientRet.ret # NoClient) =>
          /\ CLIENTS[clientRet.id] = clientRet.ret
          /\ backend_id[clientRet.ret] = clientRet.id

\* a call returned a clone of the only backend ever created, of which a
\* caller already held a handle
C12_Witness ==
    /\ clientRet.op = "register_client"
    /\ clientRet.ret # NoClient
    /\ chandles[clientRet.ret] = 2
    /\ built = 1

\* C13: client(id) returns a handle of the registered backend exactly while
\* the id is registered, and the registered backend is running whether or
\* not callers hold handles of it.  unregister_client(id) returns what was
\* registered and leaves the id unregistered: the first call returns Some,
\* client(id) and further unregister_client(id) calls return None.
C13_RegisteredClientWorks ==
    /\ [](\A id \in ClientIds :
            CLIENTS[id] # NoClient => crunning[CLIENTS[id]] = "running")
    /\ [](clientRet.op = "client" => clientRet.ret = CLIENTS[clientRet.id])
    /\ [](clientRet.op = "unregister_client" =>
            /\ CLIENTS[clientRet.id] = NoClient
            /\ clientRet.ret # NoClient => crunning[clientRet.ret] = "running")
    /\ [][\A id \in ClientIds :
            (clientRet'.op = "unregister_client" /\ clientRet'.id = id) =>
                clientRet'.ret = CLIENTS[id]]_vars
    /\ [][\A id \in ClientIds :
            (clientRet'.op = "client" /\ clientRet'.id = id /\ CLIENTS[id] = NoClient)
                => clientRet'.ret = NoClient]_vars

\* client(id) returned a running client of which no caller held a handle
C13_Witness ==
    /\ clientRet.op = "client"
    /\ clientRet.ret # NoClient
    /\ chandles[clientRet.ret] = 1
    /\ crunning[clientRet.ret] = "running"
    /\ unregistered[clientRet.id] = 1

(***************************************************************************)
(* Properties of the NngClient.                                            *)
(***************************************************************************)

\* the threads that are blocked in spawn_await
BlockedThreads == {t \in Threads : tpc[t] = "spawn_await"}

\* C34: a registry lock is held for the insertion, lookup or removal only:
\* no thread is blocked, waiting for a spawned future, a channel or a ping,
\* while it holds the write lock of CLIENTS.
C34_NoWaitUnderRegistryLock == \A t \in BlockedThreads : clients_lock # t

\* the followed client is unregistered and no handle of it is left
ClientReleased ==
    /\ built > 0
    /\ CLIENTS[TheClientId] = NoClient
    /\ request_senders(TheBackend) = 0

\* no task of the client is active and its context is destroyed
ClientTornDown ==
    /\ client_context = "destroyed"
    /\ kpc = "exited"
    /\ ppc = "done"
    /\ \A c \in AioContexts : xpc[c] = "exited"

\* C14: once the client is unregistered and its last handle is dropped,
\* destroy closes the dialer, the socket and the broker and pool channels
\* and removes the context from CLIENT_CONTEXTS, and eventually the broker
\* task and every AIO context task has exited.
C14_ReleasedClientIsTornDown == ClientReleased ~> ClientTornDown

\* the sends whose Request an AIO context task has taken and is done with
Handled ==
    {k \in ClientSends :
        /\ handled_by[k] # 0
        /\ ~(xcur[handled_by[k]] = k
               /\ xpc[handled_by[k]] \in {"sending", "receiving"})}

\* the sends whose Request an AIO context task is working on
InHand ==
    {k \in ClientSends :
        /\ handled_by[k] # 0
        /\ xcur[handled_by[k]] = k
        /\ xpc[handled_by[k]] \in {"sending", "receiving"}}

\* C15: every Request that an AIO context task takes gets exactly one
\* outcome on its reply_chan, none while the task is still working on it:
\* SendFailed when issuing or completing the send failed, RecvFailed when
\* issuing or completing the recv failed, NoReplyMessage when the recv
\* completed without a message, the reply otherwise.
C15_OneOutcomePerRequest ==
    /\ \A k \in InHand : outcomes[k] = <<>>
    /\ \A k \in ClientSends : handled_by[k] = 0 => outcomes[k] = <<>>
    /\ \A k \in Handled :
          /\ Len(outcomes[k]) = 1
          /\ outcomes[k][1].kind \in
                {"Ok", "SendFailed", "RecvFailed", "NoReplyMessage",
                 "InvalidRequest"}
          /\ outcomes[k][1].kind = "SendFailed" <=>
                aio_log[k] \in {<<"send", "Err">>, <<"send_result", "Err">>}
          /\ outcomes[k][1].kind = "RecvFailed" <=>
                aio_log[k] \in {<<"recv", "Err">>, <<"recv_result", "Err">>}
          /\ outcomes[k][1].kind = "NoReplyMessage" <=>
                aio_log[k] = <<"recv_result", "NoMsg">>
          /\ outcomes[k][1].kind = "Ok" <=> aio_log[k] = <<"recv_result", "Ok">>

\* one request failed when its send completed and the next one got its
\* reply
C15_Witness ==
    \E k1, k2 \in Handled :
        /\ aio_log[k1] = <<"send_result", "Err">>
        /\ outcomes[k1] = <<RequestError("SendFailed")>>
        /\ outcomes[k2] = <<OkReply(message(k2))>>

\* the places a request sender of an AIO context can be in
Places(c) ==
    (IF \E n \in 1..Len(aio_context_pool) : aio_context_pool[n] = c
        THEN {"pool"} ELSE {})
    \cup (IF borrowed = c THEN {"lent"} ELSE {})
    \cup (IF req_chan[c] # 0 THEN {"request"} ELSE {})
    \cup (IF xpc[c] \in {"sending", "receiving", "replied"} THEN {"task"} ELSE {})

\* the number of times a request sender of an AIO context is in the pool
TimesInPool(c) ==
    Cardinality({n \in 1..Len(aio_context_pool) : aio_context_pool[n] = c})

\* C16: a failed request does not poison its AIO context.  While the pool
\* channel is open every context is in exactly one place: in the pool, lent
\* to a borrower, holding a request, or working on one and about to return
\* to the pool, whatever the outcomes of its earlier requests; and a
\* request handled by a context after a failed one gets the outcome of its
\* own nng operations, its own reply when they succeed.
C16_FailedRequestLeavesContextUsable ==
    /\ ~pool_closed =>
          \A c \in AioContexts :
              xpc[c] # "none" => Cardinality(Places(c)) = 1 /\ TimesInPool(c) <= 1
    /\ \A k1, k2 \in Handled :
          (/\ k1 < k2
           /\ handled_by[k1] = handled_by[k2]
           /\ outcomes[k1][1].kind # "Ok"
           /\ aio_log[k2] = <<"recv_result", "Ok">>)
              => outcomes[k2] = <<OkReply(message(k2))>>

\* a context failed a request, returned to the pool, and a later request on
\* it was answered
C16_Witness ==
    \E k1, k2 \in Handled :
        /\ k1 < k2
        /\ handled_by[k1] = handled_by[k2]
        /\ outcomes[k1][1].kind = "RecvFailed"
        /\ client_reply[k2] = OkReply(message(k2))

\* the steps an AIO context task makes, as changes of its position
ContextSteps ==
    {<<"none", "idle">>, <<"idle", "sending">>, <<"idle", "replied">>,
     <<"sending", "receiving">>, <<"sending", "replied">>,
     <<"receiving", "replied">>, <<"replied", "idle">>, <<"idle", "exited">>}

\* C33: a client AIO context handles a request in this order: its sender
\* is borrowed from the pool, the request is sent on it, the task issues
\* the send and waits for its completion, issues the recv and waits for
\* its completion, sends the outcome on the request's one-shot and only
\* then returns its sender to the pool.  A step is skipped only when the
\* one before it failed, and a context whose sender is in the pool has no
\* request.
C33_ClientContextOrder ==
    /\ [](\A c \in AioContexts :
            /\ TimesInPool(c) > 0 =>
                  (req_chan[c] = 0 /\ xcur[c] = 0 /\ borrowed # c
                   /\ xpc[c] \in {"idle", "exited"})
            /\ xpc[c] \in {"sending", "receiving"} =>
                  (xcur[c] # 0 /\ outcomes[xcur[c]] = <<>>)
            /\ xpc[c] = "replied" => Len(outcomes[xcur[c]]) = 1)
    /\ [][\A c \in AioContexts :
            /\ xpc'[c] # xpc[c] => <<xpc[c], xpc'[c]>> \in ContextSteps
            /\ (req_chan[c] = 0 /\ req_chan'[c] # 0) =>
                  (borrowed = c /\ TimesInPool(c) = 0 /\ xpc[c] = "idle")
            /\ (xpc[c] = "idle" /\ xpc'[c] \in {"sending", "replied"}) =>
                  /\ req_chan[c] # 0
                  /\ xcur'[c] = req_chan[c]
                  /\ aio_log'[xcur'[c]] =
                        <<"send", IF xpc'[c] = "sending" THEN "Ok" ELSE "Err">>
            /\ (xpc[c] = "sending" /\ xpc'[c] = "receiving") =>
                  aio_log'[xcur[c]] = <<"recv", "Ok">>
            /\ (xpc[c] = "sending" /\ xpc'[c] = "replied") =>
                  aio_log'[xcur[c]] \in {<<"send_result", "Err">>, <<"recv", "Err">>}
            /\ (xpc[c] = "receiving" /\ xpc'[c] = "replied") =>
                  aio_log'[xcur[c]][1] = "recv_result"
            /\ TimesInPool(c)' > TimesInPool(c) =>
                  \/ xpc[c] = "none"
                  \/ /\ xpc[c] = "replied" /\ xpc'[c] = "idle"
                     /\ Len(outcomes[xcur[c]]) = 1]_vars

\* a context went through every step of a request and is back in the pool,
\* and the caller has the reply
C33_Witness ==
    \E c \in AioContexts, k \in ClientSends :
        /\ handled_by[k] = c
        /\ aio_log[k] = <<"recv_result", "Ok">>
        /\ client_reply[k] = OkReply(message(k))
        /\ TimesInPool(c) = 1
        /\ xpc[c] = "idle"
        /\ ~pool_closed

\* the request senders in the pool, those lent to a borrower that has not
\* yet sent its request, and the contexts that hold or handle a request
Available == Len(aio_context_pool)
Lent == IF borrowed \in AioContexts THEN 1 ELSE 0
Busy ==
    Cardinality({c \in AioContexts :
                    req_chan[c] # 0 \/ xpc[c] \in {"sending", "receiving", "replied"}})

\* C37: as long as the client is not destroyed, its parallelism contexts
\* are each available in the pool, lent to one borrower or busy with one
\* request, never in two of these and never in none, also after a borrower
\* went away before it received the sender lent to it: available + lent +
\* busy = parallelism, and no more than parallelism requests are in flight.
C37_PoolConservation ==
    (client_context = "registered" /\ ~pool_closed) =>
        /\ Available + Lent + Busy = parallelism
        /\ \A c \in AioContexts : TimesInPool(c) <= 1 /\ Cardinality(Places(c)) = 1
        /\ Cardinality({k \in ClientSends : k \in InHand \/ (\E c \in AioContexts : req_chan[c] = k)})
              <= parallelism

\* C17: with the echo server running, every request sent through the
\* client eventually gets a successful reply that is its own request, the
\* reply of a request is never another request's, and it never changes
\* once received.
C17_EveryRequestEchoed ==
    /\ \A k \in ClientSends :
          (client_req[k] # 0) ~> (client_reply[k] = OkReply(client_req[k]))
    /\ [](\A k \in ClientSends :
            client_reply[k] \in {NoOutcome, OkReply(message(k))})
    /\ [][\A k \in ClientSends :
            client_reply[k] # NoOutcome => client_reply'[k] = client_reply[k]]_vars

\* a request was answered while the next one was waiting in the channel,
\* and the next one was answered as well
C17_Witness ==
    /\ client_reply[1] = OkReply(message(1))
    /\ client_reply[2] = OkReply(message(2))
    /\ handled_by[1] # 0
    /\ handled_by[2] # 0

(***************************************************************************)
(* Properties of the rpc server.                                           *)
(***************************************************************************)

\* the requests that are in progress: received and neither replied nor lost
InProgress == {r \in RpcRequests : rpc_req[r] = "received"}

\* C18: a server with aio_context_count contexts handles at most that many
\* requests at a time.  Every request in progress occupies a context of its
\* own, an occupied context has no recv outstanding, and a request is only
\* received by a context that is not occupied and has a recv outstanding:
\* while every context is occupied no further request is received, until a
\* context is done with its request and has issued a recv again.
C18_AtMostOneRequestPerContext ==
    /\ [](/\ Cardinality(InProgress) <= aio_context_count
          /\ InProgress = {rpc_cur[c] : c \in Occupied}
          /\ \A c1, c2 \in Occupied : rpc_cur[c1] = rpc_cur[c2] => c1 = c2
          /\ \A c \in Occupied : rpc_op[c] # "recv")
    /\ [][\A r \in RpcRequests :
            (rpc_req[r] = "pending" /\ rpc_req'[r] = "received") =>
                \E c \in RpcContexts :
                    /\ c \notin Occupied
                    /\ rpc_op[c] = "recv"
                    /\ rpc_cur'[c] = r]_vars
    /\ [][Occupied = RpcContexts => \A r \in RpcRequests :
            rpc_req[r] = "pending" => rpc_req'[r] = "pending"]_vars

\* every context is occupied and a further request is waiting
C18_Witness ==
    /\ Occupied = RpcContexts
    /\ \E r \in RpcRequests : rpc_req[r] = "pending"

\* C19: while the server runs and fewer than aio_context_count contexts are
\* occupied, a context that is not occupied has a recv outstanding, so that
\* a request that arrives is received and replied to without waiting for a
\* request in progress.
C19_FreeContextReceives ==
    (rpc_running = "running" /\ Cardinality(Occupied) < aio_context_count) =>
        \E c \in RpcContexts : c \notin Occupied /\ rpc_op[c] = "recv"

\* the contexts whose callback is running process
InCallback == {c \in RpcContexts : rpc_cur[c] # 0 /\ rpc_state[c] = "Recv"}

\* C35: while the socket is open, a context whose callback has returned has
\* an operation outstanding, a recv or the send of a reply, whatever event
\* the callback handled: a receive error, a completion without a message,
\* a reply whose send could not be issued, a send error.
C35_ContextRearmed ==
    rpc_running = "running" =>
        \A c \in RpcContexts \ InCallback :
            /\ rpc_op[c] \in {"recv", "send"}
            /\ (rpc_op[c] = "send") = (rpc_state[c] = "Send")

(***************************************************************************)
(* Properties of the connection metrics.                                   *)
(***************************************************************************)

\* C20: the metrics of a server count the pipe events of that server since
\* it was started: active_conn_count is the number of AddPost less the
\* number of RemovePost events, tot_conn_count the number of AddPost events
\* and tot_conn_initiate_count the number of AddPre events.
C20_MetricsCountPipeEvents ==
    \A s \in MetricsServers :
        metrics_label[s] # "none" =>
            /\ active_conn_count[metrics_label[s]]
                  = AddPostEvents(s) - RemovePostEvents(s)
            /\ tot_conn_count[metrics_label[s]] = AddPostEvents(s)
            /\ tot_conn_initiate_count[metrics_label[s]] = AddPreEvents(s)
(***************************************************************************)
(* Envelopes.                                                              *)
(***************************************************************************)
\* the envelope was opened with the key of the other side: the key that the
\* owner of the secret key sk precomputes for the public key pk is opened
\* with the key that the owner of pk precomputes for the public key of sk
OpenedWithMatchingKey ==
    /\ opened # NotOpened
    /\ opened.with.pk = sealing_key.sk
    /\ opened.with.sk = sealing_key.pk

\* C21: an OpenEnvelope that is sealed and then opened, unaltered, with the
\* opening key that matches the sealing key, opens, and the envelope opened
\* has the sender, the recipient and the message bytes of the one sealed.
C21_SealOpenRoundTrip ==
    (OpenedWithMatchingKey /\ altered = Unaltered) =>
        /\ opened.ret.result = "Ok"
        /\ opened.ret.envelope.sender = open_envelope.sender
        /\ opened.ret.envelope.recipient = open_envelope.recipient
        /\ opened.ret.envelope.msg = open_envelope.msg

\* a message of the longest size went from one address to another, sealed
\* and opened by different key pairs
C21_Witness ==
    /\ OpenedWithMatchingKey
    /\ altered = Unaltered
    /\ opened.ret.result = "Ok"
    /\ sealing_key.pk # sealing_key.sk
    /\ open_envelope.sender # open_envelope.recipient
    /\ Len(open_envelope.msg) = MaxMsgLen

\* C22: opening a SealedEnvelope with a key other than the one it was
\* sealed with, or after its ciphertext or its nonce was altered, returns
\* SealedEnvelopeOpenFailed and nothing else: no OpenEnvelope, no bytes.
C22_OpenFailsOnMismatch ==
    (/\ opened # NotOpened
     /\ \/ opened.with.key # sealing_key.key
        \/ altered # Unaltered)
    => opened.ret = [result |-> "SealedEnvelopeOpenFailed"]

\* an unaltered envelope was opened with a key of other key pairs
C22_Witness ==
    /\ opened # NotOpened
    /\ altered = Unaltered
    /\ opened.with.key # sealing_key.key
    /\ opened.ret.result = "SealedEnvelopeOpenFailed"
    /\ Len(open_envelope.msg) > 0

(***************************************************************************)
(* Encodings.                                                              *)
(***************************************************************************)
\* C23: a value encoded under an Encoding, whatever its format and its
\* compression, is encoded without error, and decoding the bytes under the
\* same Encoding returns the value.
C23_CodecRoundTrip ==
    codec # NoCodec =>
        /\ codec.encoded.result = "Ok"
        /\ codec.call = "decode" => codec.decoded = DecodeOk(codec.value)

\* a value of the longest size went through gzip and JSON
C23_Witness ==
    /\ codec # NoCodec
    /\ codec.call = "decode"
    /\ codec.encoding = Encoding("JSON", "Gzip")
    /\ Len(codec.value) = MaxMsgLen
    /\ codec.decoded = DecodeOk(codec.value)

(***************************************************************************)
(* Signed hashes.                                                          *)
(***************************************************************************)
\* the SignedHash at hand was verified
Verified == signed # NotSigned /\ verified # NotVerified

\* C24: let h be the hash of m signed with a secret key.  Under the public
\* key of the same pair, h.verify(m) is Ok and h.verify(m2) is
\* ChecksumFailed for every other m2.  Under another public key verify is
\* InvalidSignature, whatever the message: the signature is decided before
\* the checksum.  Signed bytes that are no digest give InvalidDigestLength.
C24_SignedHashVerify ==
    Verified =>
        IF verified.key # signed.signer THEN verified.ret = "InvalidSignature"
        ELSE IF signed.of = "bytes" THEN verified.ret = "InvalidDigestLength"
        ELSE IF verified.msg = signed.msg THEN verified.ret = "Ok"
        ELSE verified.ret = "ChecksumFailed"

\* another message was verified under another key pair's public key
C24_Witness ==
    /\ Verified
    /\ signed.of = "digest"
    /\ verified.key # signed.signer
    /\ verified.msg # signed.msg
    /\ verified.ret = "InvalidSignature"

(***************************************************************************)
(* Encoded messages.                                                       *)
(***************************************************************************)
\* C25: recipient() of an EncodedMessage is the recipient address it was
\* constructed with, also when sender and recipient differ.
C25_RecipientIsRecipient ==
    encoded_message # NoEncodedMessage =>
        recipient(encoded_message) = open_envelope.recipient

(***************************************************************************)
(* Deadlines.                                                              *)
(***************************************************************************)
\* what duration(T) is to return for MessageTimeoutMillis(d) at the instant
\* now: zero when T is not in the past, when T + d is no instant a DateTime
\* can hold, and when T + d has passed; else the time left until T + d
MessageTimeLeft(d, T, now) ==
    IF T >= now \/ T + d \notin Times \/ T + d <= now THEN 0 ELSE T + d - now

\* C26: duration(T) of ProcessingTimeoutMillis(d) is d milliseconds whatever
\* T is; duration(T) of MessageTimeoutMillis(d) is max(0, T + d - now), and
\* zero when T is more than d in the past, when T >= now and when T + d
\* overflows.
C26_DeadlineDuration ==
    deadline_call # NoDeadlineCall =>
        IF deadline_call.self.deadline = "ProcessingTimeoutMillis"
        THEN deadline_call.ret = deadline_call.self.millis
        ELSE deadline_call.ret =
                MessageTimeLeft(deadline_call.self.millis,
                                deadline_call.starting_time, deadline_call.now)

(***************************************************************************)
(* The AIO workers of the nng server.                                      *)
(***************************************************************************)
\* the requests that worker w received and that are neither replied to nor
\* given up
WorkerInProgress(w) ==
    {r \in WorkerRequests : wreq[r] = RequestAt("received", w)}

\* C27: a worker's context serves one request at a time.  It never has two
\* requests in progress; a recv is never issued while the send of a reply
\* is outstanding or while a request is in progress; and a send is issued
\* only for the request that the worker received and holds.
C27_WorkerSerializesRequests ==
    /\ [](\A w \in Workers : Cardinality(WorkerInProgress(w)) <= 1)
    /\ [][\A w \in Workers :
            /\ waio[w] = "send" => waio'[w] \in {"send", NoOp}
            /\ (waio'[w] = "recv" /\ waio[w] # "recv") =>
                  WorkerInProgress(w)' = {}
            /\ (waio'[w] = "send" /\ waio[w] # "send") =>
                  /\ wcur[w] # NoRequest
                  /\ WorkerInProgress(w) = {wcur[w]}
                  /\ wlog[w].result = "Ok" /\ wlog[w].has_msg]_vars

\* a worker that has replied to one request awaits the reply to the next
C27_Witness ==
    \E w \in Workers, r1 \in WorkerRequests, r2 \in WorkerRequests :
        /\ wreq[r1] = RequestAt("replied", w)
        /\ wreq[r2] = RequestAt("received", w)
        /\ wpc[w] = "send_recv"
        /\ wcur[w] = r2

\* worker w takes the event of a completion whose result is Err(Closed)
TakesClosed(w) ==
    /\ wpc[w] = "loop"
    /\ aio_rx'[w] < aio_rx[w]
    /\ aio_result[w].result = "Closed"

\* C28: a worker that finds Err(Closed) as the result of a completion, in
\* state Recv or in state Send, goes to state Closed and leaves its loop,
\* and issues no recv, send or cancel while doing so; a worker in state
\* Closed stays there and issues nothing.
C28_ClosedEndsWorker ==
    /\ [][\A w \in Workers : TakesClosed(w) =>
            /\ wstate'[w] = "Closed"
            /\ wpc'[w] = "done"
            /\ wlog'[w].calls = <<>>
            /\ waio'[w] = waio[w]]_vars
    /\ [][\A w \in Workers : wstate[w] = "Closed" =>
            /\ wstate'[w] = "Closed"
            /\ wpc'[w] = "done"
            /\ wlog'[w] = wlog[w]
            /\ waio'[w] = NoOp]_vars

\* a worker that awaited the completion of a reply's send found Closed
C28_Witness ==
    \E w \in Workers :
        /\ wpc[w] = "done"
        /\ wstate[w] = "Closed"
        /\ wlog[w] = WorkerHandled("Send", "Closed", FALSE, <<>>)

\* worker w handles a failure that is not Closed: an AIO error in state Recv
\* or Send, an Ok completion without a message, a failed send_recv, or a
\* reply whose send was not accepted
RecoverableFailure(w) ==
    \/ /\ wpc[w] = "loop"
       /\ aio_rx'[w] < aio_rx[w]
       /\ \/ aio_result[w].result = "Err"
          \/ /\ wstate[w] = "Recv"
             /\ aio_result[w] = AioResult("Ok", NoRequest)
    \/ /\ wpc[w] = "send_recv"
       /\ wpc'[w] = "loop"
       /\ \/ wlog'[w].result = "reply_failed"
          \/ Len(wlog'[w].calls) > 1

\* the worker called cancel and then recv, and goes on in state Recv
CanceledAndReissued(w) ==
    /\ Len(wlog'[w].calls) >= 2
    /\ SubSeq(wlog'[w].calls, Len(wlog'[w].calls) - 1, Len(wlog'[w].calls))
          = <<"cancel", "recv">>
    /\ wstate'[w] = "Recv"
    /\ wpc'[w] = "loop"

\* C29: after every recoverable failure the worker has cancelled the Aio and
\* called recv, is in state Recv, and its context has a recv outstanding, so
\* that a later request can reach it.
C29_FailureRearmsContext ==
    [][\A w \in Workers : RecoverableFailure(w) =>
            /\ CanceledAndReissued(w)
            /\ waio'[w] = "recv"]_vars

\* C30: once the supervisor has closed the socket, every worker task of the
\* server leaves its loop in the end, whatever it was doing then.
C30_WorkersExitAfterClose ==
    (wsocket = "closed") ~> (\A w \in Workers : wpc[w] = "done")

\* C36: a worker that waits for an event in state Recv has a recv
\* outstanding on its Aio, and one that waits in state Send has a send
\* outstanding: never nothing, and never another operation.
C36_OneOperationOutstanding ==
    \A w \in Workers :
        (wpc[w] = "loop" /\ aio_rx[w] = 0) =>
            /\ wstate[w] = "Recv" => waio[w] = "recv"
            /\ wstate[w] = "Send" => waio[w] = "send"

\* C31: the supervisor releases in order.  The socket is closed only after
\* the listener, the registry entry is removed only after both are closed,
\* and the supervisor's join handle resolves only after the removal; no
\* worker finds Closed, nor is in state Closed, before the socket is closed.
C31_ShutdownOrder ==
    /\ wsocket = "closed" => wsup.listener = "closed"
    /\ wsup.registered = "removed" =>
          (wsup.listener = "closed" /\ wsocket = "closed")
    /\ wsup.pc = "done" => wsup.registered = "removed"
    /\ wsup.pc \in {"init", "running"} =>
          (wsup.listener = "open" /\ wsocket # "closed"
           /\ wsup.registered # "removed")
    /\ \A w \in Workers :
          (aio_result[w].result = "Closed" \/ wstate[w] = "Closed") =>
              wsocket = "closed"

\* the join handle has resolved, and a worker has left its loop on Closed
C31_Witness ==
    /\ wsup.pc = "done"
    /\ wsup.registered = "removed"
    /\ \E w \in Workers : wpc[w] = "done" /\ wstate[w] = "Closed"

\* the tasks of the server that the executor hosts: the workers that have
\* not ended, and the supervisor
ServerTasks ==
    Cardinality({w \in Workers : wpc[w] # "done"})
    + (IF wsup.pc = "done" THEN 0 ELSE 1)

C40_DurationNotNegative ==
    deadline_call # NoDeadlineCall => deadline_call.ret >= 0

=============================================================================
